---- MODULE Spec2Model ----
(***************************************************************************)
(* A model of the gradient export pipeline of the shado repository:        *)
(*   - exportGradient (snapshot export of an SVG or HTML node) and its     *)
(*     helper downloadCanvasAsPng, as called by BlurryBlobCard.handleExport*)
(*   - exportGradientToCanvas (parametric export), as called by            *)
(*     ExportModal.handleExport, with the modal's React state              *)
(*   - the colour normalizer (parseColorToRgb, toCssColor,                 *)
(*     processGradientColors) and the LinearGradientCard that feeds it     *)
(* The browser is single threaded: every action below is one task of the   *)
(* event loop (an event handler, a promise continuation run to its next    *)
(* await, a timer callback, a toBlob callback), including the microtasks   *)
(* (await continuations) the task triggers.                                *)
(***************************************************************************)
EXTENDS Integers, Sequences, FiniteSets, TLC

\* ------------------------------------------------------------------ bounds
\* number of exportGradient calls that may be issued
MaxCalls == 2
\* number of exportGradientToCanvas calls that may be issued
MaxExports == 2
\* longest colour list of a card
MaxColors == 2

SnapIds == 1..MaxCalls
ExpIds == 1..MaxExports

\* the owner of a DOM node, object URL, callback or download
SnapOwner(i) == <<"snap", i>>
ExpOwner(j) == <<"exp", j>>
Owners == {SnapOwner(i) : i \in SnapIds} \cup {ExpOwner(j) : j \in ExpIds}

VARIABLES
  snap,         \* snap[i]: the i-th call of exportGradient made by the card
  pexp,         \* pexp[j]: the j-th call of exportGradientToCanvas made by the modal
  modal,        \* the ExportModal: mounted or not, and its React state
  card,         \* the card: gradient type, colors prop, variant, its blobs, and
                \* whether its effect on [colors] has still to run
  body,         \* the nodes appended to document.body by the exports
  liveUrls,     \* object URLs created and not yet revoked
  blobJobs,     \* canvas.toBlob callbacks not yet delivered
  linkTimers,   \* pending 100 ms timers that remove a link and revoke its URL
  closeTimers,  \* pending 1000 ms timers that close the modal
  clicks,       \* clicks[o]: the download names of the link clicks of export o
  completes,    \* completes[j]: number of onComplete(true) calls of export j
  shuffledColors, \* LinearGradientCard: the shuffledColors state
  browser,      \* what the browser's own colour parser supports
  drawLog,      \* the canvas calls of the last paint, and whether it threw
  blobCard,     \* the blurry-blob card: its props, its blobs, the last event it handled
  parseLog,     \* what the last parseColorToRgb call did besides returning
  imageData,    \* the pixels of a canvas handed to applyDithering, before and after
  gallery,      \* GradientGallery: its items and what rendering them gave
  uploader      \* UploaderWithPalette: the selected image, its palette, the extractions

flowVars == <<snap, pexp, modal, card, body, liveUrls, blobJobs, linkTimers,
              closeTimers, clicks, completes>>
pageVars == <<imageData, gallery, uploader>>
cardVars == <<shuffledColors, browser, drawLog, blobCard, parseLog, pageVars>>
vars == <<snap, pexp, modal, card, body, liveUrls, blobJobs, linkTimers,
          closeTimers, clicks, completes, shuffledColors, browser, drawLog,
          blobCard, parseLog, imageData, gallery, uploader>>

\* ------------------------------------------------------------ canvas paint
Min(S) == CHOOSE x \in S : \A y \in S : x <= y

\* a colour token is a string, kept as the tuple of its characters
HexRed == <<"#", "F", "F", "0", "0", "0", "0">>
HexWhite == <<"#", "f", "f", "f">>
HexNearBlack == <<"#", "0", "A", "0", "A", "0", "A">>
NoColor == <<>>

\* the JavaScript number i / (n - 1), kept as a fraction; 0/0 is NaN
Offset(i, n) == [num |-> i, den |-> n - 1]
IsNaN(q) == q.den = 0 /\ q.num = 0
InUnit(q) == q.den > 0 /\ 0 <= q.num /\ q.num <= q.den
NoOffset == [num |-> 0, den |-> 1]

Call(op, offset, color, alpha) ==
  [op |-> op, offset |-> offset, color |-> color, alpha |-> alpha]

\* CanvasGradient.addColorStop throws for an offset that is not a finite
\* number (TypeError) or lies outside [0, 1] (IndexSizeError)
AddColorStopThrows(offset) == ~InUnit(offset)

\* colors.forEach((color, i) => grad.addColorStop(i / (colors.length - 1), color))
LinearStops(colors) ==
  [k \in 1..Len(colors) |->
     Call("addColorStop", Offset(k - 1, Len(colors)), colors[k], 100)]

\* calls: the canvas calls made, the one that threw included
PaintLinear(colors) ==
  LET stops == LinearStops(colors)
      bad == {k \in 1..Len(stops) : AddColorStopThrows(stops[k].offset)}
  IN  IF bad = {}
      THEN [threw |-> FALSE,
            calls |-> stops \o <<Call("fillRect", NoOffset, <<"g", "r", "a", "d">>, 100)>>]
      ELSE [threw |-> TRUE, calls |-> SubSeq(stops, 1, Min(bad))]

\* a flat background whatever the variant
BlobBackgroundAlways(variant) ==
  IF variant = "light" THEN <<Call("fillRect", NoOffset, HexWhite, 100)>>
  ELSE <<Call("fillRect", NoOffset, HexNearBlack, 100)>>

\* ctx.filter = 'blur(40px)'
Str_blur == <<"b", "l", "u", "r", "(", "4", "0", "p", "x", ")">>

\* the flat background of a blob export
BlobBackground(variant) ==
  IF variant = "dark" THEN <<Call("fillRect", NoOffset, HexNearBlack, 100)>>
  ELSE IF variant = "light" THEN <<Call("fillRect", NoOffset, HexWhite, 100)>>
  ELSE <<>>

PaintBlobs(variant, blobs) ==
  [threw |-> FALSE,
   calls |-> BlobBackground(variant)
             \o <<Call("save", NoOffset, NoColor, 100)>>
             \o <<Call("filter", NoOffset, Str_blur, 100)>>
             \o [k \in 1..Len(blobs) |-> Call("fill", NoOffset, blobs[k].color, 90)]
             \o <<Call("restore", NoOffset, NoColor, 100)>>]

\* ctx.fillStyle = colors[0] || '#fff'
PaintFallback(colors) ==
  [threw |-> FALSE,
   calls |-> <<Call("fillRect", NoOffset,
                    IF Len(colors) > 0 /\ colors[1] # <<>> THEN colors[1] ELSE HexWhite, 100)>>]

\* the drawing part of exportGradientToCanvas
Paint(type, colors, variant, blobs) ==
  IF type = "linear" THEN PaintLinear(colors)
  ELSE IF type = "blob" /\ Len(blobs) > 0 THEN PaintBlobs(variant, blobs)
  ELSE PaintFallback(colors)

NoPaint == [threw |-> FALSE, calls |-> <<>>]

\* ------------------------------------------------------------ strings
\* a JavaScript string is the tuple of its characters
Str_rgbOpen == <<"r", "g", "b", "(">>
Str_rgbaOpen == <<"r", "g", "b", "a", "(">>
Str_labOpen == <<"l", "a", "b", "(">>
Str_hash == <<"#">>
Str_NaN == <<"N", "a", "N">>
Str_commaSpace == <<",", " ">>
\* 'rgb(255,0,255)'
Str_magenta == <<"r", "g", "b", "(", "2", "5", "5", ",", "0", ",", "2", "5", "5", ")">>
Str_inherit == <<"i", "n", "h", "e", "r", "i", "t">>

DigitChars == <<"0", "1", "2", "3", "4", "5", "6", "7", "8", "9">>
IsDigit(c) == \E k \in 1..10 : DigitChars[k] = c
DigitVal(c) == (CHOOSE k \in 1..10 : DigitChars[k] = c) - 1
\* \s
IsSpace(c) == c \in {" ", "\t", "\n"}
\* [\d.]
IsNumChar(c) == IsDigit(c) \/ c = "."

UpperChars == <<"A", "B", "C", "D", "E", "F", "L", "R", "G">>
LowerChars == <<"a", "b", "c", "d", "e", "f", "l", "r", "g">>
\* the case folding of the regex flag i and of the CSS parser
LowerChar(c) ==
  IF \E k \in 1..Len(UpperChars) : UpperChars[k] = c
  THEN LowerChars[CHOOSE k \in 1..Len(UpperChars) : UpperChars[k] = c]
  ELSE c
ToLower(s) == [k \in 1..Len(s) |-> LowerChar(s[k])]

\* String.prototype.startsWith
StartsWith(s, prefix) == Len(s) >= Len(prefix) /\ SubSeq(s, 1, Len(prefix)) = prefix

\* String.prototype.trim
Trim(s) ==
  LET keep == {k \in 1..Len(s) : ~IsSpace(s[k])}
  IN  IF keep = {} THEN <<>>
      ELSE SubSeq(s, Min(keep), CHOOSE k \in keep : \A m \in keep : m <= k)

\* the first position >= p of s whose character is not in the class (Len(s)+1 if none)
SkipSpace(s, p) ==
  Min({q \in p..(Len(s) + 1) : q = Len(s) + 1 \/ ~IsSpace(s[q])})
SkipNum(s, p) ==
  Min({q \in p..(Len(s) + 1) : q = Len(s) + 1 \/ ~IsNumChar(s[q])})
CharAt(s, p) == IF p >= 1 /\ p <= Len(s) THEN s[p] ELSE ""

\* numbers are kept in hundredths; nan marks NaN
Num(v) == [nan |-> FALSE, v |-> v]
NaN == [nan |-> TRUE, v |-> 0]
Hundred == 10 * 10

Pow10(k) == IF k = 0 THEN 1 ELSE IF k = 1 THEN 10 ELSE 100
RECURSIVE DigitsValue(_)
DigitsValue(ds) ==
  IF ds = <<>> THEN 0 ELSE 10 * DigitsValue(SubSeq(ds, 1, Len(ds) - 1)) + DigitVal(ds[Len(ds)])

\* the first position >= p of s that is not a decimal digit (Len(s)+1 if none)
SkipDigits(s, p) ==
  Min({q \in p..(Len(s) + 1) : q = Len(s) + 1 \/ ~IsDigit(s[q])})

\* the value of the two leading decimals
FracValue(frac) == DigitsValue(frac) * Pow10(2 - Len(frac))

\* a number from its integer digits and its decimals; digits after the second
\* decimal are dropped; no digit at all is NaN
MakeNum(intDigits, fracAll) ==
  IF intDigits = <<>> /\ fracAll = <<>> THEN NaN
  ELSE Num(DigitsValue(intDigits) * Hundred
           + FracValue(IF Len(fracAll) > 2 THEN SubSeq(fracAll, 1, 2) ELSE fracAll))

\* the longest prefix that is a decimal literal, its integer part ending before intEnd
DecimalValue(digits, intEnd) ==
  IF CharAt(digits, intEnd) = "."
  THEN MakeNum(SubSeq(digits, 1, intEnd - 1),
               SubSeq(digits, intEnd + 1, SkipDigits(digits, intEnd + 1) - 1))
  ELSE MakeNum(SubSeq(digits, 1, intEnd - 1), <<>>)

Negate(x) == IF x.nan THEN x ELSE Num(0 - x.v)

\* parseFloat of a string of the shape -?[\d.]+
ParseFloat(s) ==
  IF CharAt(s, 1) = "-"
  THEN Negate(DecimalValue(Tail(s), SkipDigits(Tail(s), 1)))
  ELSE DecimalValue(s, SkipDigits(s, 1))

\* Number -> string, of a non-negative integer
RECURSIVE IntToStr(_)
IntToStr(n) ==
  IF n < 10 THEN <<DigitChars[n + 1]>>
  ELSE IntToStr(n \div 10) \o <<DigitChars[(n % 10) + 1]>>

\* Number -> string, of a number kept in hundredths
NumToStr(x) ==
  IF x.nan THEN Str_NaN
  ELSE LET mag == IF x.v < 0 THEN 0 - x.v ELSE x.v
           whole == IntToStr(mag \div Hundred)
           f == mag % Hundred
           frac == IF f = 0 THEN <<>>
                   ELSE IF f % 10 = 0 THEN <<".", DigitChars[(f \div 10) + 1]>>
                   ELSE <<".", DigitChars[(f \div 10) + 1], DigitChars[(f % 10) + 1]>>
       IN  (IF x.v < 0 THEN <<"-">> ELSE <<>>) \o whole \o frac

\* ------------------------------------------------------- colour normalizer
\* labToRgb works on fractions kept in ten-thousandths (0.206893 is 2068)
Unit == 100 * 100

\* invGamma: t > 0.206893034422 ? t^3 : (t - 16 / 116) / 7.787
InvGamma(t) ==
  IF t > 2068 THEN (((t * t) \div Unit) * t) \div Unit
  ELSE ((t - 1379) * Unit) \div 7787

\* GammaThreshold[j]: the least c (in ten-thousandths) with
\* Math.round((1.055 * c^(1/2.4) - 0.055) * 255) >= j, tabulated from that formula
GammaThreshold == <<
   10, 11, 13, 15, 17, 19, 21, 24, 26, 29, 32, 36, 39, 43, 46,
   50, 54, 59, 63, 68, 73, 78, 83, 89, 95, 101, 107, 113, 120, 127,
   134, 141, 149, 156, 164, 173, 181, 190, 199, 208, 217, 227, 237, 247, 258,
   268, 279, 290, 302, 314, 325, 338, 350, 363, 376, 389, 403, 417, 431, 445,
   460, 475, 490, 505, 521, 537, 554, 570, 587, 604, 622, 640, 658, 676, 695,
   714, 733, 752, 772, 792, 813, 834, 855, 876, 898, 920, 942, 965, 988, 1011,
   1035, 1059, 1083, 1107, 1132, 1157, 1183, 1209, 1235, 1262, 1288, 1315, 1343, 1371, 1399,
   1427, 1456, 1485, 1515, 1545, 1575, 1605, 1636, 1667, 1699, 1731, 1763, 1796, 1829, 1862,
   1896, 1930, 1964, 1999, 2034, 2069, 2105, 2141, 2177, 2214, 2251, 2289, 2327, 2365, 2404,
   2443, 2482, 2522, 2562, 2603, 2643, 2685, 2726, 2768, 2811, 2853, 2897, 2940, 2984, 3028,
   3073, 3118, 3163, 3209, 3255, 3302, 3349, 3396, 3444, 3492, 3540, 3589, 3638, 3688, 3738,
   3788, 3839, 3890, 3942, 3994, 4047, 4099, 4153, 4206, 4260, 4315, 4370, 4425, 4480, 4536,
   4593, 4650, 4707, 4765, 4823, 4881, 4940, 5000, 5059, 5119, 5180, 5241, 5302, 5364, 5426,
   5489, 5552, 5616, 5680, 5744, 5809, 5874, 5940, 6006, 6072, 6139, 6206, 6274, 6342, 6411,
   6480, 6549, 6619, 6690, 6760, 6832, 6903, 6975, 7048, 7121, 7194, 7268, 7342, 7417, 7492,
   7568, 7644, 7720, 7797, 7875, 7952, 8031, 8109, 8189, 8268, 8348, 8429, 8510, 8591, 8673,
   8755, 8838, 8921, 9005, 9089, 9174, 9259, 9344, 9430, 9517, 9604, 9691, 9779, 9867, 9956>>

\* gammaCorrect without Math.max(0, ...) (12.92 * 255 is 3295 per 1000)
GammaCorrectNoFloor(c) ==
  IF c > 31
  THEN IF c >= Unit THEN 255
       ELSE Cardinality({j \in 1..255 : c >= GammaThreshold[j]})
  ELSE (3295 * c + 5000) \div 10000

\* gammaCorrect: sRGB encoding, clamped to [0, 1], times 255, rounded
GammaCorrect(c) ==
  IF c > 31
  THEN IF c >= Unit THEN 255
       ELSE Cardinality({j \in 1..255 : c >= GammaThreshold[j]})
  ELSE IF c <= 0 THEN 0
       ELSE (1292 * c * 255 + 500000) \div 1000000

\* labToRgb(l, a, b), the arguments in hundredths; channels are 0..255 or NaN
LabToRgb(l, a, b) ==
  IF l.nan \/ a.nan \/ b.nan THEN [r |-> NaN, g |-> NaN, b |-> NaN]
  ELSE
    LET fy == ((l.v + 1600) * 100) \div 116
        fx == fy + (a.v * 100) \div 500
        fz == fy - (b.v * 100) \div 200
        \* reference white D65: 95.047, 100.0, 108.883 (as fractions of 100)
        x == (9505 * InvGamma(fx)) \div Unit
        y == InvGamma(fy)
        z == (10888 * InvGamma(fz)) \div Unit
        rLin == (x * 32406 - y * 15372 - z * 4986) \div Unit
        gLin == (y * 18758 - x * 9689 + z * 415) \div Unit
        bLin == (x * 557 - y * 2040 + z * 10570) \div Unit
    IN  [r |-> Num(GammaCorrect(rLin) * Hundred),
         g |-> Num(GammaCorrect(gLin) * Hundred),
         b |-> Num(GammaCorrect(bLin) * Hundred)]

\* colorStr.match(/^lab\(\s*([\d.]+)%\s+(-?[\d.]+)\s+(-?[\d.]+)(?:\s*\/\s*([\d.]+))?\s*\)$/i)
\* the elements of a pattern: a literal (case folded by the flag i), an optional
\* literal, white space (at least min), [\d.]+, and the ends of a capture group
Lit(c) == [k |-> "lit", c |-> c, min |-> 0]
Opt(c) == [k |-> "opt", c |-> c, min |-> 0]
Ws(min) == [k |-> "ws", c |-> "", min |-> min]
NumPlus == [k |-> "num", c |-> "", min |-> 1]
Open == [k |-> "open", c |-> "", min |-> 0]
Close == [k |-> "close", c |-> "", min |-> 0]

\* requirePercent: the regex of parseColorToRgb wants the % after L; CSS does not
\* withAlpha: the optional group (?:\s*\/\s*([\d.]+)) taken or skipped
LabPattern(requirePercent, withAlpha) ==
  <<Lit("l"), Lit("a"), Lit("b"), Lit("("), Ws(0), Open, NumPlus, Close>>
    \o (IF requirePercent THEN <<Lit("%")>> ELSE <<Opt("%")>>)
    \o <<Ws(1), Open, Opt("-"), NumPlus, Close, Ws(1), Open, Opt("-"), NumPlus, Close>>
    \o (IF withAlpha THEN <<Ws(0), Lit("/"), Ws(0), Open, NumPlus, Close>> ELSE <<>>)
    \o <<Ws(0), Lit(")")>>

RegexFail == [ok |-> FALSE, caps |-> <<>>]

\* the match of elements k.. of pat against s from position p, anchored at the end ($);
\* the classes that follow one another are disjoint, so the greedy match is the match
RECURSIVE RegexRun(_, _, _, _, _, _)
RegexRun(s, pat, k, p, start, caps) ==
  IF k > Len(pat) THEN [ok |-> p = Len(s) + 1, caps |-> caps]
  ELSE CASE pat[k].k = "lit" ->
              IF LowerChar(CharAt(s, p)) = pat[k].c
              THEN RegexRun(s, pat, k + 1, p + 1, start, caps) ELSE RegexFail
         [] pat[k].k = "opt" ->
              RegexRun(s, pat, k + 1, IF CharAt(s, p) = pat[k].c THEN p + 1 ELSE p, start, caps)
         [] pat[k].k = "ws" ->
              IF SkipSpace(s, p) - p >= pat[k].min
              THEN RegexRun(s, pat, k + 1, SkipSpace(s, p), start, caps) ELSE RegexFail
         [] pat[k].k = "num" ->
              IF SkipNum(s, p) > p
              THEN RegexRun(s, pat, k + 1, SkipNum(s, p), start, caps) ELSE RegexFail
         [] pat[k].k = "open" -> RegexRun(s, pat, k + 1, p, p, caps)
         [] pat[k].k = "close" ->
              RegexRun(s, pat, k + 1, p, start, Append(caps, SubSeq(s, start, p - 1)))

NoMatch == [ok |-> FALSE, l |-> <<>>, a |-> <<>>, b |-> <<>>, hasAlpha |-> FALSE, alpha |-> <<>>]
LabGroups(caps, hasAlpha) ==
  [ok |-> TRUE, l |-> caps[1], a |-> caps[2], b |-> caps[3],
   hasAlpha |-> hasAlpha, alpha |-> caps[4]]
LabShapeOf(withAlpha, plain) ==
  IF withAlpha.ok THEN LabGroups(withAlpha.caps, TRUE)
  ELSE IF plain.ok THEN LabGroups(Append(plain.caps, <<>>), FALSE)
  ELSE NoMatch
LabShape(s, requirePercent) ==
  LabShapeOf(RegexRun(s, LabPattern(requirePercent, TRUE), 1, 1, 1, <<>>),
             RegexRun(s, LabPattern(requirePercent, FALSE), 1, 1, 1, <<>>))

LabMatch(s) == LabShape(s, TRUE)

\* `rgb(${r}, ${g}, ${bVal})` and `rgba(${r}, ${g}, ${bVal}, ${alpha})`
RgbString(c) ==
  Str_rgbOpen \o NumToStr(c.r) \o Str_commaSpace \o NumToStr(c.g) \o Str_commaSpace
    \o NumToStr(c.b) \o <<")">>
RgbaString(c, alpha) ==
  Str_rgbaOpen \o NumToStr(c.r) \o Str_commaSpace \o NumToStr(c.g) \o Str_commaSpace
    \o NumToStr(c.b) \o Str_commaSpace \o NumToStr(alpha) \o <<")">>

\* the LAB branch of parseColorToRgb
LabBranch(m) ==
  LET alpha == IF m.hasAlpha THEN ParseFloat(m.alpha) ELSE Num(Hundred)
      c == LabToRgb(ParseFloat(m.l), ParseFloat(m.a), ParseFloat(m.b))
  IN  IF ~alpha.nan /\ alpha.v < Hundred THEN RgbaString(c, alpha) ELSE RgbString(c)

\* the browser: whether its CSS parser knows lab(), and whether the computed
\* colour of a declaration it rejected reads as '' or as the inherited colour
Browsers == [lab : BOOLEAN, emptyOnInvalid : BOOLEAN]
\* the inherited colour of an element appended to document.body
Str_inherited == <<"r", "g", "b", "(", "0", ",", " ", "0", ",", " ", "0", ")">>
Str_red == <<"r", "e", "d">>
Str_redComputed == <<"r", "g", "b", "(", "2", "5", "5", ",", " ", "0", ",", " ", "0", ")">>

\* div.style.color = colorStr; window.getComputedStyle(div).color
\* (CSS ignores case and surrounding white space; a computed lab() colour is
\* serialized as lab(L a b) or lab(L a b / alpha))
ComputedColor(colorStr, br) ==
  LET t == ToLower(Trim(colorStr))
      m == LabShape(t, FALSE)
      invalid == IF br.emptyOnInvalid THEN <<>> ELSE Str_inherited
  IN  IF t = Str_red THEN Str_redComputed
      ELSE IF m.ok
      THEN IF br.lab
           THEN Str_labOpen \o m.l \o <<" ">> \o m.a \o <<" ">> \o m.b
                  \o (IF m.hasAlpha THEN <<" ", "/", " ">> \o m.alpha ELSE <<>>) \o <<")">>
           ELSE invalid
      ELSE invalid

\* parseColorToRgb without its first test
ParseColorToRgbNoShortcut(colorStr, br) ==
  IF LabMatch(colorStr).ok THEN LabBranch(LabMatch(colorStr))
  ELSE LET rgb == ComputedColor(colorStr, br)
       IN  IF rgb = <<>> \/ rgb = Str_inherit THEN Str_magenta ELSE rgb

\* parseColorToRgb
ParseColorToRgb(colorStr, br) ==
  IF StartsWith(colorStr, Str_rgbOpen) \/ StartsWith(colorStr, Str_hash) THEN colorStr
  ELSE IF LabMatch(colorStr).ok THEN LabBranch(LabMatch(colorStr))
  ELSE LET rgb == ComputedColor(colorStr, br)
       IN  IF rgb = <<>> \/ rgb = Str_inherit THEN Str_magenta ELSE rgb

\* toCssColor: colorStr.trim().startsWith('lab(') ? parseColorToRgb(colorStr) : colorStr
ToCssColor(colorStr, br) ==
  IF StartsWith(Trim(colorStr), Str_labOpen) THEN ParseColorToRgb(colorStr, br) ELSE colorStr

\* processGradientColors, of an array: colors.map(color => toCssColor(color))
ProcessGradientColors(colors, br) == [k \in 1..Len(colors) |-> ToCssColor(colors[k], br)]

\* colour tokens of the accepted notations
Tok_hex == HexRed
Tok_rgb == <<"r", "g", "b", "(", "1", ",", " ", "2", ",", " ", "3", ")">>
Tok_lab == <<"l", "a", "b", "(", "5", "0", "%", " ", "1", "0", " ", "1", "0", ")">>
Tok_labAlpha == <<"l", "a", "b", "(", "6", "0", "%", " ", "-", "1", "0", " ", "3", "0", " ", "/", " ", "0", ".", "8", ")">>
Tok_labSpaced == <<" ", "l", "a", "b", "(", "5", "0", "%", " ", "1", "0", " ", "1", "0", ")">>
Tok_labUpper == <<"L", "A", "B", "(", "5", "0", "%", " ", "1", "0", " ", "1", "0", ")">>
Tok_labNoPercent == <<"l", "a", "b", "(", "5", "0", " ", "1", "0", " ", "1", "0", ")">>
Tok_named == Str_red
Tok_garbage == <<"n", "o", "c", "o", "l", "o", "r">>

TokenPool == {Tok_hex, Tok_rgb, Tok_lab, Tok_labAlpha, Tok_labSpaced, Tok_labUpper,
              Tok_labNoPercent, Tok_named, Tok_garbage}

\* the style properties that may carry a colour or a gradient
ColorProps == {"backgroundColor", "color", "borderColor", "borderTopColor",
               "borderRightColor", "borderBottomColor", "borderLeftColor",
               "boxShadow", "textShadow", "backgroundImage"}
Str_none == <<"n", "o", "n", "e">>
\* the computed style of an exported element whose colours are lab() colours
NodeStyle ==
  [p \in ColorProps |->
     IF p \in {"boxShadow", "textShadow", "backgroundImage"} THEN Str_none
     ELSE IF p = "color" THEN Tok_rgb ELSE Tok_lab]

\* prepareElementForExport, on the style of one element: each property that has
\* a value is set to toCssColor of it (a backgroundImage without 'gradient' too);
\* the modal defines it and nothing calls it
PrepareElementForExport(style, br) ==
  [p \in DOMAIN style |-> IF style[p] = <<>> THEN style[p] ELSE ToCssColor(style[p], br)]

\* node.cloneNode(true): the clone has the style of the node
CloneNode(style) == style

\* ------------------------------------------------- snapshot export (legacy)
\* the values exportGradient rejects with: code and message as the caller reads them
\* name: the constructor of the rejection value
ErrNone == [name |-> "none", code |-> "undefined", message |-> "undefined"]
\* new Error('Failed to get canvas context')
ErrCanvasContext == [name |-> "Error", code |-> "undefined", message |-> "Failed to get canvas context"]
\* img.onerror = reject: the rejection value is the error Event, not an Error
ErrImageEvent == [name |-> "Event", code |-> "undefined", message |-> "undefined"]
\* XMLSerializer.serializeToString threw
ErrSerialize == [name |-> "Error", code |-> "undefined", message |-> "serialize"]
\* new Error('Failed to load html2canvas. Please ensure it is installed.')
ErrLoadHtml2canvas ==
  [name |-> "Error", code |-> "undefined",
   message |-> "Failed to load html2canvas. Please ensure it is installed."]
\* the catch block around the rasterizer: code EXPORT_FAILED
ErrExportFailed == [name |-> "Error", code |-> "EXPORT_FAILED", message |-> "Failed to export image. "]

\* BlurryBlobCard.handleExport, catch block: which alert the user sees
\* 'HTML2CANVAS_NOT_FOUND' -> the html2canvas message, else 'Export failed: ' + message
CardAlert(err) ==
  IF err.code = "HTML2CANVAS_NOT_FOUND"
  THEN <<"Export failed: html2canvas is not installed. Please install html2canvas">>
  ELSE <<"Export failed: ", IF err.message # "undefined" THEN err.message ELSE "Unknown error.">>

\* options of the card's call: { fileName: "blurry-blob-gradient.png", scale: 2 }
SnapFileName == <<"blurry-blob-gradient.png">>

CloneOf(o) == [node |-> "clone", owner |-> o]
LinkOf(o) == [node |-> "link", owner |-> o]
SvgUrlOf(o) == [url |-> "svg", owner |-> o]
LinkUrlOf(o) == [url |-> "link", owner |-> o]

\* encoded: what canvas.toBlob called back with ("blob", "null"), once it has
\* cloneStyle: the style of the clone handed to html2canvas
NewSnap == [pc |-> "new", kind |-> "none", outcome |-> "none", err |-> ErrNone,
            alert |-> <<>>, encoded |-> "none", cloneStyle |-> <<>>]

\* the call settles: the promise of exportGradient resolves or rejects and the
\* card's handler continues after its await
SnapResolved(r) == [r EXCEPT !.pc = "settled", !.outcome = "ok"]
SnapRejected(r, err) ==
  [r EXCEPT !.pc = "settled", !.outcome = "error", !.err = err, !.alert = CardAlert(err)]

\* finally { if (document.body.contains(clone)) document.body.removeChild(clone) }
RemoveCloneLeft(b, o) == b
RemoveClone(b, o) == b \ {CloneOf(o)}

\* img.onload: URL.revokeObjectURL(url)
RevokeSvgUrl(urls, o) == urls \ {SvgUrlOf(o)}

\* calls are numbered in the order they are made
NextSnap(i) == snap[i].pc = "new" /\ \A k \in SnapIds : k < i => snap[k].pc # "new"

\* handleExport -> exportGradient(node) with an SVG node, up to the first await
StartSvgExport(i) ==
  /\ NextSnap(i)
  /\ \E serializeOk \in BOOLEAN, ctxOk \in BOOLEAN :
       LET o == SnapOwner(i)
           r == [snap[i] EXCEPT !.kind = "svg"]
       IN  \/ /\ ~serializeOk
              /\ snap' = [snap EXCEPT ![i] = SnapRejected(r, ErrSerialize)]
              /\ UNCHANGED liveUrls
           \/ /\ serializeOk /\ ~ctxOk
              /\ liveUrls' = liveUrls \cup {SvgUrlOf(o)}
              /\ snap' = [snap EXCEPT ![i] = SnapRejected(r, ErrCanvasContext)]
           \/ /\ serializeOk /\ ctxOk
              /\ liveUrls' = liveUrls \cup {SvgUrlOf(o)}
              /\ snap' = [snap EXCEPT ![i] = [r EXCEPT !.pc = "awaitImage"]]
  /\ UNCHANGED <<pexp, modal, card, body, blobJobs, linkTimers, closeTimers,
                 clicks, completes>>
  /\ UNCHANGED cardVars

\* img.onload, then the continuation: downloadCanvasAsPng(canvas, fileName); return
ImageLoaded(i) ==
  /\ snap[i].pc = "awaitImage"
  /\ liveUrls' = RevokeSvgUrl(liveUrls, SnapOwner(i))
  /\ blobJobs' = blobJobs \cup {SnapOwner(i)}
  /\ snap' = [snap EXCEPT ![i] = SnapResolved(snap[i])]
  /\ UNCHANGED <<pexp, modal, card, body, linkTimers, closeTimers, clicks, completes>>
  /\ UNCHANGED cardVars

\* img.onerror = reject
ImageFailed(i) ==
  /\ snap[i].pc = "awaitImage"
  /\ snap' = [snap EXCEPT ![i] = SnapRejected(snap[i], ErrImageEvent)]
  /\ UNCHANGED <<pexp, modal, card, body, liveUrls, blobJobs, linkTimers,
                 closeTimers, clicks, completes>>
  /\ UNCHANGED cardVars

\* clone = node.cloneNode(true); document.body.appendChild(clone);
\* await html2canvas(clone, options)
AttachClone(i) ==
  /\ body' = body \cup {CloneOf(SnapOwner(i))}
  /\ snap' = [snap EXCEPT ![i] = [@ EXCEPT !.kind = "html", !.pc = "awaitRaster",
                                           !.cloneStyle = CloneNode(NodeStyle)]]

\* exportGradient(node) with an HTML element, up to the first await
StartHtmlExport(i) ==
  /\ NextSnap(i)
  /\ \E windowHasHtml2canvas \in BOOLEAN :
       \/ /\ windowHasHtml2canvas
          /\ AttachClone(i)
       \/ /\ ~windowHasHtml2canvas
          /\ snap' = [snap EXCEPT ![i] = [@ EXCEPT !.kind = "html", !.pc = "awaitImport"]]
          /\ UNCHANGED body
  /\ UNCHANGED <<pexp, modal, card, liveUrls, blobJobs, linkTimers, closeTimers,
                 clicks, completes>>
  /\ UNCHANGED cardVars

\* await import('html2canvas') resolved
ImportLoaded(i) ==
  /\ snap[i].pc = "awaitImport"
  /\ AttachClone(i)
  /\ UNCHANGED <<pexp, modal, card, liveUrls, blobJobs, linkTimers, closeTimers,
                 clicks, completes>>
  /\ UNCHANGED cardVars

\* await import('html2canvas') rejected: catch (importError) { throw new Error(...) }
ImportFailed(i) ==
  /\ snap[i].pc = "awaitImport"
  /\ snap' = [snap EXCEPT ![i] = SnapRejected(snap[i], ErrLoadHtml2canvas)]
  /\ UNCHANGED <<pexp, modal, card, body, liveUrls, blobJobs, linkTimers,
                 closeTimers, clicks, completes>>
  /\ UNCHANGED cardVars

\* html2canvas resolved: downloadCanvasAsPng(canvas, fileName), then finally
RasterDone(i) ==
  /\ snap[i].pc = "awaitRaster"
  /\ blobJobs' = blobJobs \cup {SnapOwner(i)}
  /\ body' = RemoveClone(body, SnapOwner(i))
  /\ snap' = [snap EXCEPT ![i] = SnapResolved(snap[i])]
  /\ UNCHANGED <<pexp, modal, card, liveUrls, linkTimers, closeTimers, clicks, completes>>
  /\ UNCHANGED cardVars

\* html2canvas rejected: catch { throw exportError (EXPORT_FAILED) }, then finally
RasterFailed(i) ==
  /\ snap[i].pc = "awaitRaster"
  /\ body' = RemoveClone(body, SnapOwner(i))
  /\ snap' = [snap EXCEPT ![i] = SnapRejected(snap[i], ErrExportFailed)]
  /\ UNCHANGED <<pexp, modal, card, liveUrls, blobJobs, linkTimers, closeTimers,
                 clicks, completes>>
  /\ UNCHANGED cardVars

\* downloadCanvasAsPng: the canvas.toBlob callback
SnapBlobCallback(i) ==
  LET o == SnapOwner(i) IN
  /\ o \in blobJobs
  /\ blobJobs' = blobJobs \ {o}
  /\ \E blobIsNull \in BOOLEAN :
       \/ /\ blobIsNull
          /\ snap' = [snap EXCEPT ![i] = [@ EXCEPT !.encoded = "null"]]
          /\ UNCHANGED <<body, liveUrls, linkTimers, clicks>>
       \/ /\ ~blobIsNull
          /\ snap' = [snap EXCEPT ![i] = [@ EXCEPT !.encoded = "blob"]]
          /\ liveUrls' = liveUrls \cup {LinkUrlOf(o)}
          /\ body' = body \cup {LinkOf(o)}
          /\ clicks' = [clicks EXCEPT ![o] = Append(@, SnapFileName)]
          /\ linkTimers' = linkTimers \cup {o}
  /\ UNCHANGED <<pexp, modal, card, closeTimers, completes>>
  /\ UNCHANGED cardVars

\* downloadCanvasAsPng: the setTimeout(..., 100) callback
SnapLinkTimer(i) ==
  LET o == SnapOwner(i) IN
  /\ o \in linkTimers
  /\ linkTimers' = linkTimers \ {o}
  /\ body' = body \ {LinkOf(o)}
  /\ liveUrls' = liveUrls \ {LinkUrlOf(o)}
  /\ UNCHANGED <<snap, pexp, modal, card, blobJobs, closeTimers, clicks, completes>>
  /\ UNCHANGED cardVars

\* ------------------------------------------ parametric export and the modal
Formats == {"PNG", "JPG", "WEBP"}
Scales == {1, 2, 3}

\* format.toLowerCase()
ToLowerCase(f) == CASE f = "PNG" -> "png" [] f = "JPG" -> "jpg" [] f = "WEBP" -> "webp"

\* new Error('Failed to create image blob')
ErrCreateBlob == [name |-> "Error", code |-> "undefined", message |-> "Failed to create image blob"]
\* the TypeError of addColorStop
ErrPaint == [name |-> "TypeError", code |-> "undefined", message |-> "addColorStop: non-finite offset"]

\* fileName: `gradient-${type}`
ModalFileName(type) == <<"gradient-", type>>
\* link.download = `${fileName}.${format}`
DownloadName(fileName, format) == fileName \o <<".", format>>

\* the format factor of the size estimate, in twentieths: JPG 0.15, WEBP 0.2, PNG 0.3
FormatRatio(format) ==
  IF format = "JPG" THEN 3 ELSE IF format = "WEBP" THEN 4 ELSE 6

\* estimatedBytes without the safety margin
EstimatedBytesNoMargin(width, height, scale, format) ==
  (width * height * scale * scale * 4) * FormatRatio(format) * 5

\* estimatedBytes, in hundredths of a byte:
\* baseSize = width * height * scale * scale * 4, times the format factor, times 1.2
EstimatedBytes(width, height, scale, format) ==
  (width * height * scale * scale * 4) * FormatRatio(format) * 6

\* Number.prototype.toFixed(1) of a number given in tenths
ToFixed1(tenths) == IntToStr(tenths \div 10) \o <<".", DigitChars[(tenths % 10) + 1]>>

\* formatSize(bytes), the bytes in hundredths:
\* bytes < 1024 -> `${Math.round(bytes)} B`; bytes < 1024 * 1024 ->
\* `${(bytes / 1024).toFixed(1)} KB`; else `${(bytes / (1024 * 1024)).toFixed(1)} MB`
FormatSize(n) ==
  IF n < 1024 * 100 THEN IntToStr((n + 50) \div 100) \o <<" ", "B">>
  ELSE IF n < 1024 * 1024 * 100
  THEN ToFixed1((n + 512 * 10) \div (1024 * 10)) \o <<" ", "K", "B">>
  ELSE ToFixed1((n + 512 * 1024 * 10) \div (1024 * 1024 * 10)) \o <<" ", "M", "B">>

\* the effect on [width, height, scale, format]: if (width <= 0 || height <= 0) return;
\* ... setEstimatedSize(formatSize(estimatedBytes))
EstimatedSize(width, height, scale, format, previous) ==
  IF width <= 0 \/ height <= 0 THEN previous
  ELSE FormatSize(EstimatedBytes(width, height, scale, format))

\* the modal after a render and its effects
WithEstimate(m) ==
  [m EXCEPT !.estimatedSize = EstimatedSize(card.width, card.height, m.scale, m.format, @)]

\* useState initial values of a freshly mounted ExportModal, and its first effect
MountedModal ==
  WithEstimate([open |-> TRUE, isExporting |-> FALSE, exportProgress |-> 0,
                scale |-> 1, format |-> "PNG", estimatedSize |-> <<>>])
\* {showExportModal && <ExportModal ... />}: closing unmounts and drops the state
UnmountedModal ==
  [open |-> FALSE, isExporting |-> FALSE, exportProgress |-> 0,
   scale |-> 1, format |-> "PNG", estimatedSize |-> <<>>]

\* pexp[j].mounted: the modal instance whose handleExport made call j is still
\* mounted, so the state setters its continuations call still act
\* fileName, format, width, height, scale, canvas, paint: the arguments and the
\* canvas of a call, kept while the call uses them
NoCanvas == [width |-> 0, height |-> 0]
\* mime, quality: the type and quality arguments of canvas.toBlob (quality in
\* hundredths); pipeline: what was done to the canvas, in order
NewExp == [pc |-> "new", outcome |-> "none", err |-> ErrNone, mounted |-> FALSE,
           fileName |-> <<>>, format |-> "none", width |-> 0, height |-> 0, scale |-> 0,
           alert |-> <<>>, canvas |-> NoCanvas, paint |-> NoPaint, encoded |-> "none",
           mime |-> <<>>, quality |-> 0, pipeline |-> <<>>, events |-> <<>>]

\* events: what the callbacks of a call did, in order.
\* The canvas.toBlob callback with a blob: appendChild(link); link.click()
BlobCallbackEvents(events) == events \o <<"append", "click">>
\* the 100 ms timer, with onComplete called before the link is removed
LinkTimerEventsCompleteFirst(events) ==
  events \o <<"onComplete", "remove", "revoke", "resolve">>
\* the 100 ms timer: removeChild(link); revokeObjectURL; onComplete?.(true); resolve(true)
LinkTimerEvents(events) == events \o <<"remove", "revoke", "onComplete", "resolve">>

\* `image/${format}`
MimeType(format) == <<"image/", format>>
\* format === 'jpg' ? 0.92 : format === 'webp' ? 0.85 : 1, in hundredths
Quality(format) == IF format = "jpg" THEN 92 ELSE IF format = "webp" THEN 85 ELSE 100

\* canvas.toBlob(callback, type, quality): the formats the browser may encode in.
\* A type it does not support gives PNG; image/png and image/jpeg are always
\* supported, image/webp by the browsers that have a WebP encoder.
EncodedTypes(mime) ==
  IF mime = <<"image/", "png">> THEN {"png"}
  ELSE IF mime = <<"image/", "jpeg">> THEN {"jpeg"}
  ELSE IF mime = <<"image/", "webp">> THEN {"webp", "png"}
  ELSE {"png"}

\* applyDithering(canvas, ctx, format): nothing for PNG, a noise pass otherwise;
\* the modal defines it and none of its handlers calls it
ApplyDithering(format) == IF format = "PNG" THEN <<>> ELSE <<"dither">>

\* handleExport -> exportGradientToCanvas: the canvas is painted, then canvas.toBlob
ExportPipeline == <<"paint", "encode">>

\* exportWidth = width * scale; exportHeight = height * scale;
\* canvas.width = exportWidth; canvas.height = exportHeight
CanvasSizeUnscaled(width, height, scale) == [width |-> width, height |-> height]
CanvasSize(width, height, scale) == [width |-> width * scale, height |-> height * scale]

\* the canvas and the arguments are dropped when the call has no more use of them
Released(r) ==
  [r EXCEPT !.fileName = <<>>, !.format = "none", !.width = 0, !.height = 0, !.scale = 0,
            !.canvas = NoCanvas, !.paint = NoPaint,
            !.mime = <<>>, !.quality = 0, !.pipeline = <<>>]

\* unmounting the modal detaches every call its instance made
Detached(ps) == [j \in DOMAIN ps |-> [ps[j] EXCEPT !.mounted = FALSE]]

\* handleExport, after the await resolved:
\* setIsExporting(false); setExportProgress(100); setTimeout(close, 1000)
HandleExportThen(m, mounted) ==
  IF mounted THEN [m EXCEPT !.isExporting = FALSE, !.exportProgress = 100] ELSE m

\* handleExport, catch block: setIsExporting(false); setExportProgress(0); alert(...)
HandleExportCatchStuck(m, mounted) ==
  IF mounted THEN [m EXCEPT !.exportProgress = 0] ELSE m
HandleExportCatch(m, mounted) ==
  IF mounted THEN [m EXCEPT !.isExporting = FALSE, !.exportProgress = 0] ELSE m

\* alert(`Export failed: ${error instanceof Error ? error.message : 'Unknown error'}`)
ModalAlert(err) ==
  <<"Export failed: ", IF err.name \in {"Error", "TypeError"} THEN err.message ELSE "Unknown error">>

ExpRejected(r, err) ==
  [Released(r) EXCEPT !.pc = "settled", !.outcome = "error", !.err = err,
                      !.alert = ModalAlert(err), !.events = Append(@, "reject")]

NextExp(j) == pexp[j].pc = "new" /\ \A k \in ExpIds : k < j => pexp[k].pc # "new"

\* LinearGradientCard: processedColors and currentColors
ProcessedColors == ProcessGradientColors(card.colors, browser)
CurrentColors == IF Len(shuffledColors) > 0 THEN shuffledColors ELSE ProcessedColors

\* the colors prop a card passes to its ExportModal: currentColors of a linear
\* card, the processed colours of a blob card
ModalColors == IF card.type = "linear" THEN CurrentColors ELSE ProcessedColors

\* the card's ExportButton: setShowExportModal(true)
OpenModal ==
  /\ ~modal.open
  /\ modal' = MountedModal
  /\ UNCHANGED <<snap, pexp, card, body, liveUrls, blobJobs, linkTimers,
                 closeTimers, clicks, completes>>
  /\ UNCHANGED cardVars

\* the modal's close button (disabled={isExporting}): onClose()
CloseModal ==
  /\ modal.open /\ ~modal.isExporting
  /\ modal' = UnmountedModal
  /\ pexp' = Detached(pexp)
  /\ UNCHANGED <<snap, card, body, liveUrls, blobJobs, linkTimers,
                 closeTimers, clicks, completes>>
  /\ UNCHANGED cardVars

\* the scale buttons (disabled={isExporting}): setScale(value)
SetScale(v) ==
  /\ modal.open /\ ~modal.isExporting /\ modal.scale # v
  /\ modal' = WithEstimate([modal EXCEPT !.scale = v])
  /\ UNCHANGED <<snap, pexp, card, body, liveUrls, blobJobs, linkTimers,
                 closeTimers, clicks, completes>>
  /\ UNCHANGED cardVars

\* the format buttons (disabled={isExporting}): setFormat(fmt)
SetFormat(f) ==
  /\ modal.open /\ ~modal.isExporting /\ modal.format # f
  /\ modal' = WithEstimate([modal EXCEPT !.format = f])
  /\ UNCHANGED <<snap, pexp, card, body, liveUrls, blobJobs, linkTimers,
                 closeTimers, clicks, completes>>
  /\ UNCHANGED cardVars

\* the modal's Export button (disabled={isExporting}): handleExport, which calls
\* exportGradientToCanvas and runs it up to canvas.toBlob
ClickExport(j) ==
  /\ modal.open /\ ~modal.isExporting
  /\ NextExp(j)
  /\ \E ctxOk \in BOOLEAN :
       LET o == ExpOwner(j)
           painted == Paint(card.type, ModalColors, card.variant, card.blobs)
           r == [pexp[j] EXCEPT !.mounted = TRUE,
                                !.fileName = ModalFileName(card.type),
                                !.format = ToLowerCase(modal.format),
                                !.width = card.width, !.height = card.height,
                                !.scale = modal.scale,
                                !.canvas = CanvasSize(card.width, card.height, modal.scale)]
           started == [modal EXCEPT !.isExporting = TRUE, !.exportProgress = 0]
       IN  \/ /\ ~ctxOk
              /\ pexp' = [pexp EXCEPT ![j] = ExpRejected(r, ErrCanvasContext)]
              /\ modal' = HandleExportCatch(started, TRUE)
              /\ UNCHANGED blobJobs
           \/ /\ ctxOk /\ painted.threw
              /\ pexp' = [pexp EXCEPT ![j] =
                            ExpRejected(r, ErrPaint)]
              /\ modal' = HandleExportCatch(started, TRUE)
              /\ UNCHANGED blobJobs
           \/ /\ ctxOk /\ ~painted.threw
              /\ pexp' = [pexp EXCEPT ![j] =
                            [r EXCEPT !.paint = painted, !.pc = "awaitBlob",
                                      !.mime = MimeType(r.format),
                                      !.quality = Quality(r.format),
                                      !.pipeline = ExportPipeline]]
              /\ modal' = started
              /\ blobJobs' = blobJobs \cup {o}
  /\ UNCHANGED <<snap, card, body, liveUrls, linkTimers, closeTimers, clicks, completes>>
  /\ UNCHANGED cardVars

\* exportGradientToCanvas: the canvas.toBlob callback
ExpBlobCallback(j) ==
  LET o == ExpOwner(j) IN
  /\ o \in blobJobs
  /\ blobJobs' = blobJobs \ {o}
  /\ \E blobIsNull \in BOOLEAN :
       \/ /\ blobIsNull
          /\ pexp' = [pexp EXCEPT ![j] =
                        ExpRejected([@ EXCEPT !.encoded = "null"], ErrCreateBlob)]
          /\ modal' = HandleExportCatch(modal, pexp[j].mounted)
          /\ UNCHANGED <<body, liveUrls, linkTimers, clicks>>
       \/ /\ ~blobIsNull
          /\ liveUrls' = liveUrls \cup {LinkUrlOf(o)}
          /\ body' = body \cup {LinkOf(o)}
          /\ clicks' = [clicks EXCEPT
                          ![o] = Append(@, DownloadName(pexp[j].fileName, pexp[j].format))]
          /\ linkTimers' = linkTimers \cup {o}
          /\ pexp' = [pexp EXCEPT ![j] =
                        [Released(@) EXCEPT !.pc = "awaitTimer", !.encoded = "blob",
                                            !.events = BlobCallbackEvents(@)]]
          /\ UNCHANGED modal
  /\ UNCHANGED <<snap, card, closeTimers, completes>>
  /\ UNCHANGED cardVars

\* exportGradientToCanvas: the setTimeout(..., 100) callback, which removes the
\* link, revokes the URL, calls onComplete(true) and resolves; handleExport continues
ExpLinkTimer(j) ==
  LET o == ExpOwner(j) IN
  /\ o \in linkTimers
  /\ linkTimers' = linkTimers \ {o}
  /\ body' = body \ {LinkOf(o)}
  /\ liveUrls' = liveUrls \ {LinkUrlOf(o)}
  /\ completes' = [completes EXCEPT ![j] = @ + 1]
  /\ pexp' = [pexp EXCEPT ![j] = [@ EXCEPT !.pc = "settled", !.outcome = "ok",
                                          !.events = LinkTimerEvents(@)]]
  /\ modal' = HandleExportThen(modal, pexp[j].mounted)
  /\ closeTimers' = closeTimers \cup {j}
  /\ UNCHANGED <<snap, card, blobJobs, clicks>>
  /\ UNCHANGED cardVars

\* handleExport: the setTimeout(..., 1000) callback: setExportProgress(0); onClose()
CloseTimerFires(j) ==
  /\ j \in closeTimers
  /\ closeTimers' = closeTimers \ {j}
  /\ modal' = UnmountedModal
  /\ pexp' = Detached(pexp)
  /\ UNCHANGED <<snap, card, body, liveUrls, blobJobs, linkTimers, clicks, completes>>
  /\ UNCHANGED cardVars

\* ------------------------------------------------------- the export flows
\* part of generateBlobs: one blob per colour, at most four
CardBlobs(colors) ==
  LET n == IF Len(colors) < 4 THEN Len(colors) ELSE 4
  IN  [k \in 1..n |-> [path |-> k, color |-> colors[k]]]

\* colour lists of the flows: already normalized tokens, of every length
FlowPalettes == {[k \in 1..n |-> HexRed] : n \in 0..MaxColors}

\* const width = 800; const height = 450: the size every card passes to its modal
CardWidth == 800
CardHeight == 450

FlowCards ==
  {[type |-> "linear", colors |-> cs, variant |-> v, blobs |-> <<>>,
    width |-> CardWidth, height |-> CardHeight, resetPending |-> FALSE] :
     cs \in FlowPalettes, v \in {"default"}}
  \cup
  {[type |-> "blob", colors |-> cs, variant |-> v, blobs |-> CardBlobs(cs),
    width |-> CardWidth, height |-> CardHeight, resetPending |-> FALSE] :
     cs \in FlowPalettes, v \in {"light", "dark", "random"}}

ModernBrowser == [lab |-> TRUE, emptyOnInvalid |-> FALSE]

\* no blurry-blob card is mounted; no colour has been parsed
NoBlobCard == [version |-> "none", colors |-> <<>>, variant |-> "dark", blobs |-> <<>>,
               genColors |-> <<>>, event |-> "none", regenerated |-> FALSE,
               propsEqual |-> FALSE, pending |-> <<>>]
\* no canvas has been handed to applyDithering; no gallery and no uploader is
\* mounted
NoImage == [format |-> "none", before |-> <<>>, after |-> <<>>, dithered |-> FALSE]
NoGallery == [items |-> <<>>, rendered |-> <<>>, logged |-> {}, threw |-> FALSE]
NoUploader == [mounted |-> FALSE]
PageIdle == imageData = NoImage /\ gallery = NoGallery /\ uploader = NoUploader

\* (scratch: the scratch elements attached to document.body, before and after
\* the call)
NoParse == [called |-> FALSE, fn |-> "none", input |-> <<>>, result |-> <<>>,
            threw |-> FALSE, warned |-> FALSE, scratchBefore |-> 0, scratch |-> 0]

IdleCard == [type |-> "linear", colors |-> <<>>, variant |-> "default", blobs |-> <<>>,
             width |-> CardWidth, height |-> CardHeight, resetPending |-> FALSE]

FlowInit ==
  /\ snap = [i \in SnapIds |-> NewSnap]
  /\ pexp = [j \in ExpIds |-> NewExp]
  /\ modal = UnmountedModal
  /\ body = {}
  /\ liveUrls = {}
  /\ blobJobs = {}
  /\ linkTimers = {}
  /\ closeTimers = {}
  /\ clicks = [o \in Owners |-> <<>>]
  /\ completes = [j \in ExpIds |-> 0]

\* the card of BlurryBlobCard.tsx exports its SVG node through exportGradient
SnapInit ==
  /\ FlowInit
  /\ card = IdleCard
  /\ shuffledColors = <<>>
  /\ browser = ModernBrowser
  /\ drawLog = NoPaint
  /\ blobCard = NoBlobCard
  /\ parseLog = NoParse
  /\ PageIdle

SnapNext ==
  \E i \in SnapIds :
    \/ StartSvgExport(i)
    \/ ImageLoaded(i)
    \/ ImageFailed(i)
    \/ StartHtmlExport(i)
    \/ ImportLoaded(i)
    \/ ImportFailed(i)
    \/ RasterDone(i)
    \/ RasterFailed(i)
    \/ SnapBlobCallback(i)
    \/ SnapLinkTimer(i)

SnapSpec == SnapInit /\ [][SnapNext]_vars

\* a card with an ExportModal exports through exportGradientToCanvas
ModalInit ==
  /\ FlowInit
  /\ card \in FlowCards
  /\ shuffledColors = <<>>
  /\ browser = ModernBrowser
  /\ drawLog = NoPaint
  /\ blobCard = NoBlobCard
  /\ parseLog = NoParse
  /\ PageIdle

ModalNext ==
  \/ OpenModal
  \/ CloseModal
  \/ \E v \in Scales : SetScale(v)
  \/ \E f \in Formats : SetFormat(f)
  \/ \E j \in ExpIds :
       \/ ClickExport(j)
       \/ ExpBlobCallback(j)
       \/ ExpLinkTimer(j)
       \/ CloseTimerFires(j)

ModalSpec == ModalInit /\ [][ModalNext]_vars

\* ExportModal takes width and height as props: the same flow for modals of other sizes
Widths == {0, 16, CardWidth}
Heights == {1, 16, CardHeight}
SizedCards ==
  {[type |-> "linear", colors |-> <<HexRed, HexRed>>, variant |-> "default", blobs |-> <<>>,
    width |-> w, height |-> h, resetPending |-> FALSE] : w \in Widths, h \in Heights}
  \cup
  {[type |-> "blob", colors |-> cs, variant |-> "dark", blobs |-> CardBlobs(cs),
    width |-> w, height |-> h, resetPending |-> FALSE] :
     cs \in {<<>>, <<HexRed, HexRed>>}, w \in Widths, h \in Heights}

SizedInit ==
  /\ FlowInit
  /\ card \in SizedCards
  /\ shuffledColors = <<>>
  /\ browser = ModernBrowser
  /\ drawLog = NoPaint
  /\ blobCard = NoBlobCard
  /\ parseLog = NoParse
  /\ PageIdle

SizedSpec == SizedInit /\ [][ModalNext]_vars

\* ------------------------------------------------- the linear card
RECURSIVE SeqsUpTo(_, _)
SeqsUpTo(S, n) ==
  IF n = 0 THEN {<<>>}
  ELSE LET shorter == SeqsUpTo(S, n - 1)
       IN  shorter \cup {Append(q, x) : q \in {r \in shorter : Len(r) = n - 1}, x \in S}

Palettes == SeqsUpTo(TokenPool, MaxColors)

\* every order of the elements of a sequence
Shuffles(cs) == {[k \in 1..Len(cs) |-> cs[f[k]]] : f \in Permutations(1..Len(cs))}

\* handleShuffle: shuffled -> original order; original -> a random order
\* ([...processedColors].sort(() => Math.random() - 0.5)). React runs the
\* effects that are pending before it handles a click.
HandleShuffle ==
  /\ card.type = "linear" /\ ~card.resetPending
  /\ \/ /\ Len(shuffledColors) > 0
        /\ shuffledColors' = <<>>
     \/ /\ Len(shuffledColors) = 0
        /\ shuffledColors' \in Shuffles(ProcessedColors)
  /\ UNCHANGED flowVars
  /\ UNCHANGED <<browser, drawLog, blobCard, parseLog, pageVars>>

\* ExportModal.handleExport -> exportGradientToCanvas: the canvas calls made with
\* the colours the card passes to the modal
ExportPaint ==
  /\ ~card.resetPending
  /\ drawLog' = Paint(card.type, ModalColors, card.variant, card.blobs)
  /\ UNCHANGED flowVars
  /\ UNCHANGED <<browser, shuffledColors, blobCard, parseLog, pageVars>>

LinearCards ==
  {[type |-> "linear", colors |-> cs, variant |-> v, blobs |-> <<>>,
    width |-> CardWidth, height |-> CardHeight, resetPending |-> FALSE] :
     cs \in Palettes, v \in {"default", "smooth"}}

CardInit ==
  /\ FlowInit
  /\ card \in LinearCards
  /\ browser \in Browsers
  /\ shuffledColors = <<>>
  /\ drawLog = NoPaint
  /\ blobCard = NoBlobCard
  /\ parseLog = NoParse
  /\ PageIdle

CardNext == HandleShuffle \/ ExportPaint

CardSpec == CardInit /\ [][CardNext]_vars

\* ------------------------------------------------------ the blurry-blob card
\* const regions = ["top-left", "top-right", "bottom-left", "bottom-right"]
Quadrants == <<"top-left", "top-right", "bottom-left", "bottom-right">>
Regions == {"center"} \cup {Quadrants[k] : k \in 1..Len(Quadrants)}

\* Math.min(colors.length, 4)
BlobCap == 4
\* colour lists up to one colour more than the cap
MaxBlobColors == BlobCap + 1
\* the longest colour list of a card that also shuffles its colours
MaxShuffledColors == 2
\* shuffle timers (setTimeout(..., 50)) pending at one time
MaxPendingShuffles == 1

BlobTokens == <<<<"#", "1">>, <<"#", "2">>, <<"#", "3">>, <<"#", "4">>, <<"#", "5">>,
                <<"#", "6">>>>
BlobPalette(n) == SubSeq(BlobTokens, 1, n)
BlobVariants == {"light", "dark"}

\* the versions of the card: BlurryBlobCard.tsx takes the colors prop as it is and
\* regenerates at once on a shuffle ("plain"); another normalizes the prop in a
\* useMemo, shuffles the colours of each generation and delays its shuffle ("shuffled")
BlobVersions == {"plain", "shuffled"}

\* the colors the card works with: the prop, or useMemo(processGradientColors(prop))
BlobCardColors(version, originalColors) ==
  IF version = "plain" THEN originalColors
  ELSE ProcessGradientColors(originalColors, browser)

\* colors.slice(0, Math.min(colors.length, 4))
UsedColorsUncapped(colors) == colors
UsedColors(colors) ==
  SubSeq(colors, 1, IF Len(colors) < BlobCap THEN Len(colors) ELSE BlobCap)

\* ["center", ...Array.from(regions).sort(() => Math.random() - 0.5)]: the sort
\* with a random comparator leaves some permutation of the four regions
BlobRegions == {<<"center">> \o q : q \in Shuffles(Quadrants)}

\* generateBlobs: blobRegions.slice(0, usedColors.length).map(region => blob);
\* the third version takes the colours in a random order before the slice
GenerateBlobs(version, colors) ==
  {[k \in 1..Len(used) |-> [region |-> rs[k], color |-> used[k]]] :
     rs \in BlobRegions,
     used \in {UsedColors(cs) :
                 cs \in IF version = "shuffled" THEN Shuffles(colors) ELSE {colors}}}

\* the card after generateBlobs ran on the colours its closure holds; event is what
\* the card handled last: "mount", "trigger" (a resize notification or a shuffle
\* request), "shuffleClick" (a shuffle request that only set its timer) or "render"
Regenerated(c, colors, blobs, event) ==
  [c EXCEPT !.blobs = blobs, !.genColors = colors, !.event = event, !.regenerated = TRUE]

\* useEffect(() => { generateBlobs(); observer.observe(...) }, [generateBlobs]) at mount
MountedBlobCard(version, colors) ==
  {Regenerated([NoBlobCard EXCEPT !.version = version, !.colors = colors],
               colors, blobs, "mount") :
     blobs \in GenerateBlobs(version, colors)}
MountedBlobCards ==
  UNION {MountedBlobCard(v, BlobCardColors(v, BlobPalette(n))) :
           v \in BlobVersions, n \in 0..MaxBlobColors}

\* the ResizeObserver callback: generateBlobs of the last effect run
BlobResize ==
  /\ blobCard.version # "none"
  /\ \E blobs \in GenerateBlobs(blobCard.version, blobCard.colors) :
       blobCard' = [Regenerated(blobCard, blobCard.colors, blobs, "trigger")
                      EXCEPT !.propsEqual = FALSE]
  /\ UNCHANGED flowVars
  /\ UNCHANGED <<shuffledColors, browser, drawLog, parseLog, pageVars>>

\* handleShuffle: generateBlobs() at once, or (third version) setShuffleKey and
\* setTimeout(() => generateBlobs(), 50) with the generateBlobs of this render
BlobShuffle ==
  /\ blobCard.version # "none"
  /\ \/ /\ blobCard.version # "shuffled"
        /\ \E blobs \in GenerateBlobs(blobCard.version, blobCard.colors) :
             blobCard' = [Regenerated(blobCard, blobCard.colors, blobs, "trigger")
                            EXCEPT !.propsEqual = FALSE]
     \/ /\ blobCard.version = "shuffled"
        /\ Len(blobCard.pending) < MaxPendingShuffles
        /\ blobCard' = [blobCard EXCEPT !.pending = Append(@, blobCard.colors),
                                        !.event = "shuffleClick",
                                        !.regenerated = FALSE, !.propsEqual = FALSE]
  /\ UNCHANGED flowVars
  /\ UNCHANGED <<shuffledColors, browser, drawLog, parseLog, pageVars>>

\* the 50 ms timer of handleShuffle: generateBlobs of the render that set it
BlobShuffleTimer ==
  /\ blobCard.pending # <<>>
  /\ \E blobs \in GenerateBlobs(blobCard.version, Head(blobCard.pending)) :
       blobCard' = [Regenerated(blobCard, Head(blobCard.pending), blobs, "trigger")
                      EXCEPT !.pending = Tail(@), !.propsEqual = FALSE]
  /\ UNCHANGED flowVars
  /\ UNCHANGED <<shuffledColors, browser, drawLog, parseLog, pageVars>>

\* useCallback(..., [colors, variant]) and useEffect(..., [generateBlobs]): the
\* effect runs again when a dependency is not Object.is-equal to the last one
DepsChanged(oldColors, newColors, sameArray, oldVariant, newVariant) ==
  ~sameArray \/ oldVariant # newVariant

\* a render of the card with the props its parent passes: Home builds the colour
\* arrays anew on each of its renders (sameArray is false); the card's own
\* re-render keeps the array it has (sameArray is true)
BlobRender(n, variant, sameArray) ==
  /\ blobCard.version # "none"
  /\ LET colors == BlobCardColors(blobCard.version, BlobPalette(n))
         rendered == [blobCard EXCEPT !.colors = colors, !.variant = variant,
                                      !.event = "render", !.regenerated = FALSE,
                                      !.propsEqual = (colors = blobCard.colors
                                                       /\ variant = blobCard.variant)]
     IN  /\ sameArray => colors = blobCard.colors
         /\ IF DepsChanged(blobCard.colors, colors, sameArray, blobCard.variant, variant)
            THEN \E blobs \in GenerateBlobs(blobCard.version, colors) :
                   blobCard' = Regenerated(rendered, colors, blobs, "render")
            ELSE blobCard' = rendered
  /\ UNCHANGED flowVars
  /\ UNCHANGED <<shuffledColors, browser, drawLog, parseLog, pageVars>>

\* the longest colour list the mounted card is given
MaxCardColors == IF blobCard.version = "shuffled" THEN MaxShuffledColors ELSE MaxBlobColors

BlobInit ==
  /\ FlowInit
  /\ card = IdleCard
  /\ shuffledColors = <<>>
  /\ browser = ModernBrowser
  /\ drawLog = NoPaint
  /\ parseLog = NoParse
  /\ PageIdle
  /\ blobCard \in {c \in MountedBlobCards :
                      c.version = "shuffled" => Len(c.colors) <= MaxShuffledColors}

BlobNext ==
  \/ BlobResize
  \/ BlobShuffle
  \/ BlobShuffleTimer
  \/ \E n \in 0..MaxBlobColors, variant \in BlobVariants, sameArray \in BOOLEAN :
       \* the parent passes an equal colour list, or one that is a colour longer
       \* (after the longest, the empty list); the variant changes on its own
       /\ n \in {Len(blobCard.colors), (Len(blobCard.colors) + 1) % (MaxCardColors + 1)}
       /\ (~sameArray \/ blobCard.version = "shuffled") => variant = blobCard.variant
       /\ BlobRender(n, variant, sameArray)

BlobSpec == BlobInit /\ [][BlobNext]_vars

\* ------------------------------------------- the gradient of the linear card
\* currentColors.slice(0, 4)
StopCap == 4
MaxStopColors == StopCap + 1

\* stops: the colour and the position text of each stop of the CSS gradient
\* ("" when the stop has no explicit position)
StopsOfUncapped(variant, colors) ==
  [k \in 1..Len(colors) |-> [color |-> colors[k], position |-> ""]]
StopsOf(variant, colors) ==
  IF variant = "smooth" /\ Len(colors) >= 3
  THEN <<[color |-> colors[1], position |-> "0%"],
         [color |-> colors[2], position |-> "50%"],
         [color |-> colors[3], position |-> "100%"]>>
  ELSE [k \in 1..(IF Len(colors) < StopCap THEN Len(colors) ELSE StopCap) |->
          [color |-> colors[k], position |-> ""]]

Stops == StopsOf(card.variant, CurrentColors)

\* linear cards with colour lists up to one colour more than the cap
StopCards ==
  {[type |-> "linear", colors |-> BlobPalette(n), variant |-> v, blobs |-> <<>>,
    width |-> CardWidth, height |-> CardHeight, resetPending |-> FALSE] :
     n \in 0..MaxStopColors, v \in {"default", "smooth"}}

StopsInit ==
  /\ FlowInit
  /\ card \in StopCards
  /\ browser = ModernBrowser
  /\ shuffledColors = <<>>
  /\ drawLog = NoPaint
  /\ blobCard = NoBlobCard
  /\ parseLog = NoParse
  /\ PageIdle

StopsSpec == StopsInit /\ [][CardNext]_vars

\* ------------------------------------------------------------------ claims
SnapSettled(i) == snap[i].pc = "settled"
\* nothing of call i is pending any more: it settled and its callbacks ran
SnapQuiescent(i) ==
  /\ SnapSettled(i)
  /\ SnapOwner(i) \notin blobJobs
  /\ SnapOwner(i) \notin linkTimers
ExpInFlight(j) == pexp[j].pc \in {"awaitBlob", "awaitTimer"}
SnapInFlight(i) == snap[i].pc \in {"awaitImage", "awaitImport", "awaitRaster"}
UrlsOf(o) == {u \in liveUrls : u.owner = o}

\* C1: once a snapshot export of an HTML element has settled (rasterizer success,
\* rasterizer failure, or html2canvas missing), its clone is not attached to
\* document.body.
C1_CloneDetachedOnceSettled ==
  \A i \in SnapIds :
    (SnapSettled(i) /\ snap[i].kind = "html") => CloneOf(SnapOwner(i)) \notin body

\* a call whose rasterizer failed after the clone was attached has settled
C1_Witness ==
  \E i \in SnapIds : SnapSettled(i) /\ snap[i].kind = "html" /\ snap[i].err = ErrExportFailed

\* C2: every object URL an export created has been revoked once the export has
\* nothing pending any more (it settled, and its toBlob callback and its 100 ms
\* timer ran), on every exit path.
C2_UrlsRevokedOnEveryPath ==
  /\ \A i \in SnapIds : SnapQuiescent(i) => UrlsOf(SnapOwner(i)) = {}
  /\ \A j \in ExpIds : pexp[j].pc = "settled" => UrlsOf(ExpOwner(j)) = {}

\* C3: when html2canvas is neither on window nor importable, the snapshot export
\* fails with the error code the card tests for, so the card shows the
\* install/enable message and not the generic one.
C3_MissingCapabilityIsDistinctKind ==
  \A i \in SnapIds :
    (SnapSettled(i) /\ snap[i].err.message = ErrLoadHtml2canvas.message)
      => /\ snap[i].err.code = "HTML2CANVAS_NOT_FOUND"
         /\ snap[i].alert # CardAlert(ErrExportFailed)
         /\ snap[i].alert[1] # "Export failed: "

\* C4: an export that completed successfully has triggered exactly one download
\* click (for the parametric export under the name fileName.format).
C4_SuccessMeansOneDownload ==
  /\ \A i \in SnapIds :
       (SnapQuiescent(i) /\ snap[i].outcome = "ok") => Len(clicks[SnapOwner(i)]) = 1
  /\ \A j \in ExpIds :
       pexp[j].outcome = "ok" =>
         /\ Len(clicks[ExpOwner(j)]) = 1
         /\ \E f \in Formats :
              clicks[ExpOwner(j)][1] = <<"gradient-", card.type, ".", ToLowerCase(f)>>

\* C5: when canvas.toBlob calls back with null the export fails with the
\* 'failed to create image' error at the caller and no download is triggered.
C5_NullBlobFailsTheExport ==
  /\ \A i \in SnapIds :
       snap[i].encoded = "null" =>
         /\ snap[i].outcome = "error"
         /\ snap[i].err.message = ErrCreateBlob.message
         /\ clicks[SnapOwner(i)] = <<>>
  /\ \A j \in ExpIds :
       pexp[j].encoded = "null" =>
         /\ pexp[j].outcome = "error"
         /\ pexp[j].err.message = ErrCreateBlob.message
         /\ clicks[ExpOwner(j)] = <<>>

\* C6: when serialization or image decoding fails in the SVG path, the call
\* rejects, downloadCanvasAsPng is never reached and the temporary resources of
\* the call are released.
C6_SvgLoadFailureAbortsAndReleases ==
  \A i \in SnapIds :
    (SnapSettled(i) /\ snap[i].kind = "svg" /\ snap[i].err \in {ErrSerialize, ErrImageEvent})
      => /\ snap[i].outcome = "error"
         /\ SnapOwner(i) \notin blobJobs
         /\ snap[i].encoded = "none"
         /\ clicks[SnapOwner(i)] = <<>>
         /\ UrlsOf(SnapOwner(i)) = {}

\* C7: for one card at most one export is in flight at any time.
C7_OneExportInFlightPerCard ==
  /\ Cardinality({i \in SnapIds : SnapInFlight(i)}) <= 1
  /\ Cardinality({j \in ExpIds : ExpInFlight(j)}) <= 1

\* C8: the modal shows the exporting state only while an export started by it is
\* still pending: once the export has resolved or rejected isExporting is false,
\* and a rejected export has raised its alert.
C8_SettledExportLeavesModalIdle ==
  /\ (modal.open /\ modal.isExporting)
       => \E j \in ExpIds : pexp[j].mounted /\ ExpInFlight(j)
  /\ \A j \in ExpIds :
       pexp[j].outcome = "error" => pexp[j].alert = ModalAlert(pexp[j].err)

\* an export that was pending has rejected (toBlob gave null) and its modal,
\* still mounted, is idle again
C8_Witness ==
  \E j \in ExpIds :
    /\ pexp[j].outcome = "error" /\ pexp[j].encoded = "null" /\ pexp[j].mounted
    /\ modal.open /\ ~modal.isExporting

\* the colour of a canvas call is a LAB token (in any case, white space around it)
IsLabToken(c) == StartsWith(ToLower(Trim(c)), Str_labOpen)
ColorCalls == {k \in 1..Len(drawLog.calls) : drawLog.calls[k].op \in {"addColorStop", "fill"}}
StopCalls == SelectSeq(drawLog.calls, LAMBDA c : c.op = "addColorStop")

\* C9: no colour handed to a canvas drawing call (addColorStop, fillStyle) is a
\* LAB token, whatever the notation of the card's input colours.
C9_NoLabTokenReachesCanvas ==
  \A k \in ColorCalls : ~IsLabToken(drawLog.calls[k].color)

\* C10: a linear export of n >= 1 colours adds colour i at i/(n-1), every
\* position a number in [0, 1], the first 0 and the last 1, and does not throw.
C10_LinearStopsAreDefined ==
  LET n == Len(card.colors) IN
  (drawLog # NoPaint /\ card.type = "linear" /\ n >= 1) =>
    /\ ~drawLog.threw
    /\ Len(StopCalls) = n
    /\ \A k \in 1..Len(StopCalls) :
         /\ StopCalls[k].offset = Offset(k - 1, n)
         /\ InUnit(StopCalls[k].offset)
    /\ StopCalls[1].offset.num = 0
    /\ StopCalls[n].offset.num = StopCalls[n].offset.den

\* C11: the canvas of a parametric export that is handed to the encoder has the
\* pixel size (width * scale, height * scale), for every gradient type and the
\* fallback branch; 800 x 450 at scale 2 gives 1600 x 900.
C11_CanvasIsScaledSize ==
  \A j \in ExpIds :
    pexp[j].pc = "awaitBlob" =>
      /\ pexp[j].scale \in Scales
      /\ pexp[j].canvas.width = pexp[j].width * pexp[j].scale
      /\ pexp[j].canvas.height = pexp[j].height * pexp[j].scale
      /\ (pexp[j].width = 800 /\ pexp[j].height = 450 /\ pexp[j].scale = 2)
           => pexp[j].canvas = [width |-> 1600, height |-> 900]

\* a blob card without blobs (the fallback branch) is being encoded at scale 2
C11_Witness ==
  \E j \in ExpIds :
    /\ pexp[j].pc = "awaitBlob" /\ pexp[j].scale = 2
    /\ card.type = "blob" /\ card.blobs = <<>>
    /\ pexp[j].paint.calls # <<>>
    /\ pexp[j].canvas = [width |-> 1600, height |-> 900]

\* C12: after every blob generation with n colours there are min(n, 4) blobs, each
\* in one of the five canonical regions, no two in the same region, and (when
\* there is a blob at all) one of them in the centre.
C12_BlobsFillDistinctRegions ==
  blobCard.version # "none" =>
    LET n == Len(blobCard.genColors)
        blobs == blobCard.blobs
    IN  /\ Len(blobs) = (IF n < 4 THEN n ELSE 4)
        /\ \A k \in 1..Len(blobs) : blobs[k].region \in Regions
        /\ \A k, m \in 1..Len(blobs) : blobs[k].region = blobs[m].region => k = m
        /\ Len(blobs) >= 1 => \E k \in 1..Len(blobs) : blobs[k].region = "center"
        /\ Cardinality(Regions) = 5

\* a shuffle or resize regenerated the blobs of a card with five colours, the
\* quadrants in another order than they are listed
C12_Witness ==
  /\ blobCard.event = "trigger" /\ blobCard.regenerated
  /\ Len(blobCard.genColors) = 5 /\ Len(blobCard.blobs) = 4
  /\ blobCard.blobs[2].region = "bottom-right"

\* C19: a re-render of the card or of its parent that passes an equal colour list
\* and the same variant does not regenerate the blobs (they are regenerated only
\* on a resize notification or a shuffle request).
\* (Home shows the gallery only for a palette that is not empty)
C19_EqualPropsRenderKeepsBlobs ==
  (blobCard.event = "render" /\ blobCard.propsEqual /\ Len(blobCard.colors) >= 1)
    => ~blobCard.regenerated

\* C13: the gradient of the linear card has min(n, 4) stops without positions
\* for the default variant; for the smooth variant with n >= 3 it has the first
\* three colours at 0%, 50% and 100%; for the smooth variant with n < 3 it has
\* the stops of the default variant.
C13_StopsFollowVariant ==
  LET n == Len(CurrentColors) IN
  /\ card.variant = "default" =>
       /\ Len(Stops) = (IF n < 4 THEN n ELSE 4)
       /\ \A k \in 1..Len(Stops) :
            Stops[k].color = CurrentColors[k] /\ Stops[k].position = ""
  /\ (card.variant = "smooth" /\ n >= 3) =>
       /\ Len(Stops) = 3
       /\ \A k \in 1..3 : Stops[k].color = CurrentColors[k]
       /\ <<Stops[1].position, Stops[2].position, Stops[3].position>> = <<"0%", "50%", "100%">>
  /\ (card.variant = "smooth" /\ n < 3) =>
       /\ Len(Stops) = n
       /\ \A k \in 1..Len(Stops) :
            Stops[k].color = CurrentColors[k] /\ Stops[k].position = ""

\* a smooth card with five colours, shuffled into another order
C13_Witness ==
  /\ card.variant = "smooth" /\ Len(card.colors) = 5
  /\ shuffledColors # <<>> /\ shuffledColors[1] # card.colors[1]
  /\ Len(Stops) = 3 /\ Stops[1].color = shuffledColors[1]

\* the format a file extension denotes
ExtensionType(format) == IF format = "jpg" THEN "jpeg" ELSE format

\* C14: in every export run the canvas is painted, then (JPG and WEBP only)
\* dithered, then encoded; a PNG export is not dithered.
C14_LossyExportIsDithered ==
  \A j \in ExpIds :
    pexp[j].pc = "awaitBlob" =>
      pexp[j].pipeline = (IF pexp[j].format \in {"jpg", "webp"}
                          THEN <<"paint", "dither", "encode">>
                          ELSE <<"paint", "encode">>)

\* C15: the canvas is encoded in the requested format with that format's
\* quality (png lossless, jpg 0.92, webp 0.85): the MIME type handed to the
\* encoder denotes the format of the file's extension.
C15_EncodedAsRequested ==
  \A j \in ExpIds :
    pexp[j].pc = "awaitBlob" =>
      /\ pexp[j].quality = (CASE pexp[j].format = "png" -> 100
                              [] pexp[j].format = "jpg" -> 92
                              [] pexp[j].format = "webp" -> 85)
      /\ EncodedTypes(pexp[j].mime) = {ExtensionType(pexp[j].format)}

\* ------------------------------------------------ the colour normalizer, called
\* what window.getComputedStyle(div) gives: a style declaration, or null (a
\* document that is not rendered); reading .color of null throws a TypeError
ComputedStyles == {"declaration", "null"}

\* parseColorToRgb reaches document.createElement('div')
ReachesFallback(colorStr) ==
  /\ ~(StartsWith(colorStr, Str_rgbOpen) \/ StartsWith(colorStr, Str_hash))
  /\ ~LabMatch(colorStr).ok

\* a call that returned a value without touching the document
Returned(value) == [result |-> <<value>>, threw |-> FALSE, warned |-> FALSE, leaked |-> 0]

\* parseColorToRgb with its effects: the value returned or the exception, the
\* console.warn, and the scratch div left in document.body (appendChild comes
\* before getComputedStyle, removeChild after it, with no try/finally)
ParseColorToRgbCall(colorStr, br, style) ==
  IF ~ReachesFallback(colorStr) THEN Returned(ParseColorToRgb(colorStr, br))
  ELSE IF style = "null"
  THEN [result |-> <<>>, threw |-> TRUE, warned |-> FALSE, leaked |-> 1]
  ELSE [result |-> <<ParseColorToRgb(colorStr, br)>>, threw |-> FALSE,
        warned |-> ComputedColor(colorStr, br) \in {<<>>, Str_inherit}, leaked |-> 0]

\* toCssColor with its effects
ToCssColorCall(colorStr, br, style) ==
  IF StartsWith(Trim(colorStr), Str_labOpen) THEN ParseColorToRgbCall(colorStr, br, style)
  ELSE Returned(colorStr)

Tok_hashOnly == <<"#">>
Tok_rgbOdd == <<"r", "g", "b", "(", "l", "a", "b", "(">>
ParseTokens == TokenPool \cup {Tok_hashOnly, Tok_rgbOdd}
\* the tokens of the arrays: two the normalizer leaves alone, one it converts,
\* one that takes it to the browser
ArrayTokens == {Tok_hex, Tok_rgb, Tok_lab, Tok_labSpaced}
MaxLeaked == 2

\* the outcomes of the calls on the tokens, computed once (@@ <<>> makes the
\* table an explicit function)
ParseColorToRgbCalls ==
  [tok \in ParseTokens, br \in Browsers, style \in ComputedStyles |->
     ParseColorToRgbCall(tok, br, style)] @@ <<>>
ToCssColorCalls ==
  [tok \in ParseTokens, br \in Browsers, style \in ComputedStyles |->
     ToCssColorCall(tok, br, style)] @@ <<>>

\* colors.map(color => toCssColor(color)) from element k on: the map stops at
\* the first element that throws
RECURSIVE MapToCssColor(_, _, _, _, _)
MapToCssColor(colors, k, br, style, acc) ==
  IF k > Len(colors) \/ acc.threw THEN acc
  ELSE LET r == ToCssColorCalls[colors[k], br, style]
       IN  MapToCssColor(colors, k + 1, br, style,
             [result |-> IF r.threw THEN <<>> ELSE acc.result \o r.result,
              threw |-> r.threw,
              warned |-> acc.warned \/ r.warned,
              leaked |-> acc.leaked + r.leaked])

\* processGradientColors of an array, with its effects
ProcessGradientColorsCall(colors, br, style) ==
  MapToCssColor(colors, 1, br, style,
                [result |-> <<>>, threw |-> FALSE, warned |-> FALSE, leaked |-> 0])

\* the record of a call
Logged(fn, input, r) ==
  [called |-> TRUE, fn |-> fn, input |-> input, result |-> r.result,
   threw |-> r.threw, warned |-> r.warned,
   scratchBefore |-> parseLog.scratch, scratch |-> parseLog.scratch + r.leaked]

CallParseColorToRgb ==
  \E tok \in ParseTokens, style \in ComputedStyles :
    LET r == ParseColorToRgbCalls[tok, browser, style] IN
    /\ parseLog.scratch + r.leaked <= MaxLeaked
    /\ parseLog' = Logged("parseColorToRgb", <<tok>>, r)
    /\ UNCHANGED <<flowVars, shuffledColors, browser, drawLog, blobCard, pageVars>>

CallToCssColor ==
  \E tok \in ParseTokens, style \in ComputedStyles :
    LET r == ToCssColorCalls[tok, browser, style] IN
    /\ parseLog.scratch + r.leaked <= MaxLeaked
    /\ parseLog' = Logged("toCssColor", <<tok>>, r)
    /\ UNCHANGED <<flowVars, shuffledColors, browser, drawLog, blobCard, pageVars>>

CallProcessGradientColors ==
  \E colors \in SeqsUpTo(ArrayTokens, MaxColors), style \in ComputedStyles :
    LET r == ProcessGradientColorsCall(colors, browser, style) IN
    /\ parseLog.scratch + r.leaked <= MaxLeaked
    /\ parseLog' = Logged("processGradientColors", colors, r)
    /\ UNCHANGED <<flowVars, shuffledColors, browser, drawLog, blobCard, pageVars>>

ParseInit ==
  /\ FlowInit
  /\ card = IdleCard
  /\ browser \in Browsers
  /\ shuffledColors = <<>>
  /\ drawLog = NoPaint
  /\ blobCard = NoBlobCard
  /\ parseLog = NoParse
  /\ PageIdle

ParseNext == CallParseColorToRgb \/ CallToCssColor \/ CallProcessGradientColors

ParseSpec == ParseInit /\ [][ParseNext]_vars

\* the token is already rgb(...) or #...
AlreadyRgb(tok) == StartsWith(tok, Str_rgbOpen) \/ StartsWith(tok, Str_hash)

\* C16: parseColorToRgb never throws to its caller; a token that is neither
\* hex/rgb nor a well-formed LAB token and whose computed colour is empty or
\* `inherit` yields rgb(255,0,255) and a logged warning.
C16_ParseNeverThrows ==
  (parseLog.called /\ parseLog.fn = "parseColorToRgb") =>
    /\ ~parseLog.threw
    /\ (/\ ReachesFallback(parseLog.input[1])
        /\ ComputedColor(parseLog.input[1], browser) \in {<<>>, Str_inherit})
         => (parseLog.result = <<Str_magenta>> /\ parseLog.warned)

\* C17: a token that starts with rgb( or # is returned unchanged by
\* parseColorToRgb and toCssColor, and element by element by
\* processGradientColors of an array.
C17_RgbAndHexUnchanged ==
  parseLog.called =>
    /\ (\A k \in 1..Len(parseLog.input) : AlreadyRgb(parseLog.input[k])) => ~parseLog.threw
    /\ ~parseLog.threw =>
         /\ Len(parseLog.result) = Len(parseLog.input)
         /\ \A k \in 1..Len(parseLog.input) :
              AlreadyRgb(parseLog.input[k]) => parseLog.result[k] = parseLog.input[k]

\* C17 witness: processGradientColors returned an array holding an rgb( or #
\* token next to a token it converted
C17_Witness ==
  /\ parseLog.called /\ parseLog.fn = "processGradientColors" /\ ~parseLog.threw
  /\ \E i, k \in 1..Len(parseLog.input) :
       /\ AlreadyRgb(parseLog.input[i])
       /\ parseLog.result[i] = parseLog.input[i]
       /\ parseLog.result[k] # parseLog.input[k]

\* C18: the scratch element parseColorToRgb attaches to the document is removed
\* within the same call on every exit path, an exception while reading the
\* computed style included: document.body has the same children after a call
\* as before it.
C18_ScratchElementRemoved ==
  parseLog.called => parseLog.scratch = parseLog.scratchBefore

\* width * height * scale^2 * 4 bytes times the ratio of the format (in percent)
\* times 1.2, in hundredths of a byte
ClaimedHundredths(format) ==
  LET percent == CASE format = "PNG" -> 30 [] format = "WEBP" -> 20 [] format = "JPG" -> 15
  IN  (card.width * card.height * modal.scale * modal.scale * 4) * (percent \div 5) * 6
\* n hundredths of a byte in units of u hundredths, rounded to the nearest
RoundedTo(n, u) == (2 * n + u) \div (2 * u)
\* the size shown for n hundredths of a byte
ClaimedText(n) ==
  IF n < 1024 * 100 THEN IntToStr(RoundedTo(n, 100)) \o <<" ", "B">>
  ELSE IF n < 1024 * 1024 * 100
  THEN LET t == RoundedTo(n, 1024 * 10)
       IN  IntToStr(t \div 10) \o <<".">> \o IntToStr(t % 10) \o <<" ", "K", "B">>
  ELSE LET t == RoundedTo(n, 1024 * 1024 * 10)
       IN  IntToStr(t \div 10) \o <<".">> \o IntToStr(t % 10) \o <<" ", "M", "B">>
\* the card is 800 x 450 and the modal is at scale 2, format PNG
SizeExample ==
  /\ modal.open /\ card.width = 800 /\ card.height = 450
  /\ modal.scale = 2 /\ modal.format = "PNG"

\* C20 (amended): for positive width and height the size estimate is
\* width*height*scale^2*4 bytes times the format ratio (PNG 0.3, WEBP 0.2,
\* JPG 0.15) times 1.2, shown in B below 1024 bytes, in KB with one decimal
\* below 1024^2 bytes and in MB with one decimal otherwise; for (800, 450, 2,
\* PNG) that is 2,073,600 bytes, shown as "2.0 MB".
C20_SizeEstimate ==
  /\ (modal.open /\ card.width > 0 /\ card.height > 0) =>
       modal.estimatedSize = ClaimedText(ClaimedHundredths(modal.format))
  /\ SizeExample => modal.estimatedSize = <<"2", ".", "0", " ", "M", "B">>

\* C20 witness: the modal shows the estimate of an 800 x 450 card at scale 2, PNG
C20_Witness == SizeExample /\ modal.estimatedSize # <<>>

\* C20 as stated: the same estimate, and for (800, 450, 2, PNG) a size in the
\* ~1.5 MB range (read widely: from 1.0 MB up to 1.9 MB).
C20_AboutOneAndAHalfMB ==
  /\ (modal.open /\ card.width > 0 /\ card.height > 0) =>
       modal.estimatedSize = ClaimedText(ClaimedHundredths(modal.format))
  /\ SizeExample =>
       \E t \in 0..9 : modal.estimatedSize = <<"1", ".">> \o IntToStr(t) \o <<" ", "M", "B">>

\* ------------------------------------------------------- labToRgb, called
\* L in [0, 100], a and b in [-128, 127], in hundredths: the ends of the
\* ranges, values next to them, and values between
LabLightness == {k * Hundred : k \in {0, 1, 50, 99, 100}} \cup {5050}
LabAxis == {k * Hundred : k \in {-128, -64, -1, 0, 64, 127}} \cup {-3075}

CallLabToRgb ==
  \E l \in LabLightness, a \in LabAxis, b \in LabAxis :
    /\ parseLog' = [called |-> TRUE, fn |-> "labToRgb", input |-> <<l, a, b>>,
                    result |-> <<LabToRgb(Num(l), Num(a), Num(b))>>,
                    threw |-> FALSE, warned |-> FALSE,
                    scratchBefore |-> parseLog.scratch, scratch |-> parseLog.scratch]
    /\ UNCHANGED <<flowVars, shuffledColors, browser, drawLog, blobCard, pageVars>>

LabInit ==
  /\ FlowInit
  /\ card = IdleCard
  /\ browser = ModernBrowser
  /\ shuffledColors = <<>>
  /\ drawLog = NoPaint
  /\ blobCard = NoBlobCard
  /\ parseLog = NoParse
  /\ PageIdle

LabSpec == LabInit /\ [][CallLabToRgb]_vars

\* a channel is an integer from 0 to 255
IsByte(x) == ~x.nan /\ x.v % Hundred = 0 /\ x.v \div Hundred \in 0..255

\* C21: for L in [0, 100] and a, b in [-128, 127], labToRgb returns r, g and b
\* that are each an integer in [0, 255], never NaN.
C21_ChannelsAreBytes ==
  (parseLog.called /\ parseLog.fn = "labToRgb") =>
    LET c == parseLog.result[1] IN IsByte(c.r) /\ IsByte(c.g) /\ IsByte(c.b)

\* C21 witness: a call at the end of a range (a = -128) whose result has a
\* channel clamped at 0 and a channel clamped at 255
C21_Witness ==
  /\ parseLog.called /\ parseLog.fn = "labToRgb" /\ parseLog.input[2] = -12800
  /\ LET c == parseLog.result[1]
     IN  0 \in {c.r.v, c.g.v, c.b.v} /\ 255 * Hundred \in {c.r.v, c.g.v, c.b.v}

\* ------------------------------------------------- the export of a blob card
\* blob cards of every variant, with blobs of distinct colours, up to one colour
\* above the cap, the longest list also in the opposite order
Reverse(s) == [k \in 1..Len(s) |-> s[Len(s) + 1 - k]]
PaintedPalettes ==
  {BlobPalette(n) : n \in 0..MaxBlobColors} \cup {Reverse(BlobPalette(MaxBlobColors))}
PaintedCards ==
  {[type |-> "blob", colors |-> cs, variant |-> v, blobs |-> CardBlobs(cs),
    width |-> CardWidth, height |-> CardHeight, resetPending |-> FALSE] :
     cs \in PaintedPalettes, v \in {"light", "dark", "random"}}

PaintedInit ==
  /\ FlowInit
  /\ card \in PaintedCards
  /\ shuffledColors = <<>>
  /\ browser = ModernBrowser
  /\ drawLog = NoPaint
  /\ blobCard = NoBlobCard
  /\ parseLog = NoParse
  /\ PageIdle

PaintedSpec == PaintedInit /\ [][ModalNext]_vars

\* C22: in a blob export a flat background is painted first only for variant
\* dark (near-black) or light (white) and not for random; then each blob is
\* filled with its colour at opacity 0.9 under the blur filter, in array order;
\* the canvas state is restored before the canvas is encoded.
C22_BlobPaintOrder ==
  \A j \in ExpIds :
    (pexp[j].pc = "awaitBlob" /\ card.type = "blob" /\ Len(card.blobs) > 0) =>
      LET calls == pexp[j].paint.calls
          n == Len(card.blobs)
          bg == IF card.variant \in {"dark", "light"} THEN 1 ELSE 0
      IN  /\ Len(calls) = bg + n + 3
          /\ card.variant = "dark" =>
               (calls[1].op = "fillRect" /\ calls[1].color = <<"#", "0", "A", "0", "A", "0", "A">>)
          /\ card.variant = "light" =>
               (calls[1].op = "fillRect" /\ calls[1].color = <<"#", "f", "f", "f">>)
          /\ calls[bg + 1].op = "save"
          /\ calls[bg + 2].op = "filter"
          /\ calls[bg + 2].color = <<"b", "l", "u", "r", "(", "4", "0", "p", "x", ")">>
          /\ \A k \in 1..n :
               /\ calls[bg + 2 + k].op = "fill"
               /\ calls[bg + 2 + k].color = card.blobs[k].color
               /\ calls[bg + 2 + k].alpha = 90
          /\ calls[bg + n + 3].op = "restore"
          /\ pexp[j].pipeline = <<"paint", "encode">>

\* C22 witness: a random-variant card with four blobs of different colours, in
\* the opposite order of the palette, is being encoded
C22_Witness ==
  \E j \in ExpIds :
    /\ pexp[j].pc = "awaitBlob" /\ card.type = "blob" /\ card.variant = "random"
    /\ Len(card.blobs) = 4
    /\ card.blobs[1].color = BlobTokens[5] /\ card.blobs[4].color = BlobTokens[2]
    /\ Len(pexp[j].paint.calls) = 7

\* ------------------------------------------------- applyDithering, on pixels
\* (Math.random() - 0.5) * 4 lies in [-2, 2): values of it, in hundredths, the
\* ends, the halves (where the rounding of the byte array decides) and between
NoiseValues == {-200, -150, -51, 0, 50, 149, 199}

\* a store into a Uint8ClampedArray: the number (in hundredths, here already
\* within 0..255) rounded to the nearest integer, a half to the even one
ToUint8Clamped(h) ==
  LET q == h \div Hundred
      r == h % Hundred
  IN  IF r < 50 THEN q
      ELSE IF r > 50 THEN q + 1
      ELSE IF q % 2 = 0 THEN q ELSE q + 1

\* the noise of (Math.random() - 0.5) * 8
DitherByteWide(v, noise) ==
  LET x == v * Hundred + 2 * noise
  IN  ToUint8Clamped(IF x < 0 THEN 0 ELSE IF x > 255 * Hundred THEN 255 * Hundred ELSE x)

\* data[i + c] = Math.max(0, Math.min(255, data[i + c] + noise))
DitherByte(v, noise) ==
  LET x == v * Hundred + noise
  IN  ToUint8Clamped(IF x < 0 THEN 0 ELSE IF x > 255 * Hundred THEN 255 * Hundred ELSE x)

\* the indices of data that hold R, G and B: for (i += 4) for (c < 3)
ColourIndices(data) == {i \in 1..Len(data) : i % 4 # 0}

\* applyDithering on the image data: nothing for PNG; nothing when
\* getImageData throws (caught and warned); else noise on R, G and B of each pixel
DitheredData(format, data, readable, noise) ==
  IF format = "PNG" \/ ~readable THEN data
  ELSE [i \in 1..Len(data) |-> IF i % 4 = 0 THEN data[i] ELSE DitherByte(data[i], noise[i])]

\* canvases of one pixel with channels at and next to the ends of the range,
\* and one canvas of two pixels
ByteValues == {0, 1, 128, 254, 255}
Images ==
  {<<r, g, b, a>> : r \in ByteValues, g \in ByteValues, b \in {0, 255}, a \in {0, 128, 255}}
  \cup {<<0, 128, 255, 255, 255, 1, 254, 0>>}

ApplyDitheringCall ==
  /\ ~imageData.dithered
  /\ \E format \in Formats, readable \in BOOLEAN,
        noise \in [ColourIndices(imageData.before) -> NoiseValues] :
       /\ Len(imageData.before) > 4 => \A i \in DOMAIN noise : noise[i] \in {-200, 0, 199}
       /\ imageData' = [format |-> format, before |-> imageData.before,
                        after |-> DitheredData(format, imageData.before, readable, noise),
                        dithered |-> TRUE]
  /\ UNCHANGED <<flowVars, shuffledColors, browser, drawLog, blobCard, parseLog,
                 gallery, uploader>>

DitherInit ==
  /\ FlowInit
  /\ card = IdleCard
  /\ browser = ModernBrowser
  /\ shuffledColors = <<>>
  /\ drawLog = NoPaint
  /\ blobCard = NoBlobCard
  /\ parseLog = NoParse
  /\ imageData \in {[NoImage EXCEPT !.before = d] : d \in Images}
  /\ gallery = NoGallery
  /\ uploader = NoUploader

DitherSpec == DitherInit /\ [][ApplyDitheringCall]_vars

\* C23: applyDithering changes each R, G and B byte of each pixel by at most 2
\* levels, keeps every byte in [0, 255], leaves every alpha byte unchanged, and
\* for format PNG changes no byte at all.
C23_DitheringIsBounded ==
  imageData.dithered =>
    /\ Len(imageData.after) = Len(imageData.before)
    /\ \A i \in 1..Len(imageData.before) :
         /\ imageData.after[i] \in 0..255
         /\ imageData.after[i] - imageData.before[i] \in -2..2
         /\ i % 4 = 0 => imageData.after[i] = imageData.before[i]
    /\ imageData.format = "PNG" => imageData.after = imageData.before

\* C23 witness: a JPG canvas was dithered, one channel moved by 2 levels, one
\* stayed at 255 and one at 0
C23_Witness ==
  /\ imageData.dithered /\ imageData.format = "JPG"
  /\ \E i, j, k \in ColourIndices(imageData.before) :
       /\ imageData.after[i] - imageData.before[i] = 2
       /\ imageData.before[j] = 255 /\ imageData.after[j] = 255
       /\ imageData.before[k] = 0 /\ imageData.after[k] = 0

\* C24: in the snapshot export of a general element, every colour-bearing style
\* property of the clone has been passed through the colour normalizer before
\* the clone is handed to the rasterizer.
C24_CloneStylesNormalized ==
  \A i \in SnapIds :
    (snap[i].kind = "html" /\ snap[i].pc = "awaitRaster") =>
      \A p \in ColorProps : snap[i].cloneStyle[p] = ToCssColor(NodeStyle[p], browser)

\* ------------------------------------------------------- the gallery
\* componentMap = { linear: LinearGradientCard, blob: BlurryBlobCard }
ComponentMap == [linear |-> "LinearGradientCard", blob |-> "BlurryBlobCard"]
\* componentMap is a plain object: a key it does not own is looked up in
\* Object.prototype
ObjectPrototype == [constructor |-> "Object", toString |-> "Object.prototype.toString"]

\* componentMap[item.type]
ComponentOf(type) ==
  IF type \in DOMAIN ComponentMap THEN ComponentMap[type]
  ELSE IF type \in DOMAIN ObjectPrototype THEN ObjectPrototype[type]
  ELSE "undefined"

\* the callback of gradients.map for one item: if (!Comp) return null; else
\* <Comp .../>, rendered by React. Object(props) returns an object, which is no
\* React child (React throws); Object.prototype.toString() returns a string,
\* which React renders as text. Nothing is logged.
RenderItem(type) ==
  LET Comp == ComponentOf(type) IN
  IF Comp = "undefined" THEN [out |-> "null", threw |-> FALSE, logged |-> <<>>]
  ELSE IF Comp = "Object" THEN [out |-> "none", threw |-> TRUE, logged |-> <<>>]
  ELSE IF Comp = "Object.prototype.toString"
  THEN [out |-> "[object Undefined]", threw |-> FALSE, logged |-> <<>>]
  ELSE [out |-> Comp, threw |-> FALSE, logged |-> <<>>]

\* the types of the items: the two known ones, an unknown one, and two names
\* that Object.prototype has
ItemTypes == {"linear", "blob", "radial", "constructor", "toString"}
MaxItems == 3

\* GradientGallery renders: an exception in one item unmounts the whole gallery
RenderGallery ==
  \E items \in SeqsUpTo(ItemTypes, MaxItems) :
    LET r == [k \in 1..Len(items) |-> RenderItem(items[k])]
        threw == \E k \in 1..Len(items) : r[k].threw
    IN  /\ gallery' = [items |-> items,
                       rendered |-> IF threw THEN <<>> ELSE [k \in 1..Len(items) |-> r[k].out],
                       logged |-> {items[k] : k \in {j \in 1..Len(items) : r[j].logged # <<>>}},
                       threw |-> threw]
        /\ UNCHANGED <<flowVars, shuffledColors, browser, drawLog, blobCard, parseLog,
                       imageData, uploader>>

GalleryInit ==
  /\ FlowInit
  /\ card = IdleCard
  /\ browser = ModernBrowser
  /\ shuffledColors = <<>>
  /\ drawLog = NoPaint
  /\ blobCard = NoBlobCard
  /\ parseLog = NoParse
  /\ PageIdle

GallerySpec == GalleryInit /\ [][RenderGallery]_vars

\* C25: a gallery item whose type is neither linear nor blob is logged, renders
\* nothing, and does not stop the other items from rendering; no unknown type
\* makes GradientGallery throw.
C25_UnknownTypeLoggedAndSkipped ==
  /\ ~gallery.threw
  /\ Len(gallery.rendered) = Len(gallery.items)
  /\ \A k \in 1..Len(gallery.items) :
       IF gallery.items[k] = "linear" THEN gallery.rendered[k] = "LinearGradientCard"
       ELSE IF gallery.items[k] = "blob" THEN gallery.rendered[k] = "BlurryBlobCard"
       ELSE gallery.rendered[k] = "null" /\ gallery.items[k] \in gallery.logged

\* s is an initial part of t
IsPrefix(s, t) == Len(s) <= Len(t) /\ SubSeq(t, 1, Len(s)) = s
SuccessfulRun == <<"append", "click", "remove", "revoke", "onComplete", "resolve">>

\* C26: in exportGradientToCanvas the events of a successful run occur exactly
\* once each and in the order link click, link removed, object URL revoked,
\* onComplete(true), promise resolved; on a rejected run onComplete is never
\* called and no link is left in the document.
C26_EventsInOrder ==
  \A j \in ExpIds :
    LET o == ExpOwner(j) IN
    /\ pexp[j].outcome # "error" => IsPrefix(pexp[j].events, SuccessfulRun)
    /\ (pexp[j].pc = "settled" /\ pexp[j].outcome = "ok") =>
         /\ pexp[j].events = SuccessfulRun
         /\ Len(clicks[o]) = 1 /\ completes[j] = 1
         /\ LinkOf(o) \notin body /\ LinkUrlOf(o) \notin liveUrls
    /\ (pexp[j].pc = "settled" /\ pexp[j].outcome = "error") =>
         /\ pexp[j].events = <<"reject">>
         /\ completes[j] = 0 /\ clicks[o] = <<>>
         /\ LinkOf(o) \notin body

\* C26 witness: one run has resolved and another was rejected because the
\* encoder gave no blob
C26_Witness ==
  \E j, k \in ExpIds :
    /\ pexp[j].pc = "settled" /\ pexp[j].outcome = "ok"
    /\ pexp[k].pc = "settled" /\ pexp[k].outcome = "error" /\ pexp[k].encoded = "null"

\* C27: the export modal is never closed while an export started from it is
\* still pending: the close scheduled 1 s after a successful export fires only
\* when no export is in flight, whatever is clicked inside that second.
C27_NoCloseWhileExporting ==
  \A j \in ExpIds : ExpInFlight(j) => (modal.open /\ pexp[j].mounted)

\* ------------------------------------------------------- the uploader
\* the images a user may select (0: none selected), the palette of each, and
\* the number of extractions started
MaxImages == 2
MaxExtractions == 3
UploadImages == 1..MaxImages
PaletteOfImage(img) == <<BlobTokens[img], BlobTokens[img + 1]>>

\* useState: palette [], paletteError ""; no file; reported: the argument of
\* the last onPaletteChange call; pending: getImagePalette promises not settled
\* yet, each with the image it was started for; started: how many were started.
\* The first effect runs its else branch: onPaletteChange([])
MountedUploader ==
  [mounted |-> TRUE, selected |-> 0, palette |-> <<>>, reported |-> <<>>,
   paletteError |-> FALSE, pending |-> {}, started |-> 0]

\* a file is chosen or dropped: previewUrl changes, the effect runs its first
\* branch: setPaletteError(""); getImagePalette(previewUrl, 6)
SelectImage(img) ==
  /\ uploader.started < MaxExtractions
  /\ uploader' = [uploader EXCEPT
                    !.selected = img, !.paletteError = FALSE,
                    !.started = @ + 1,
                    !.pending = @ \cup {[id |-> uploader.started + 1, image |-> img]}]
  /\ UNCHANGED <<flowVars, shuffledColors, browser, drawLog, blobCard, parseLog,
                 imageData, gallery>>

\* removeFile: previewUrl becomes null, the effect runs its else branch
RemoveImage ==
  /\ uploader.selected # 0
  /\ uploader' = [uploader EXCEPT !.selected = 0, !.palette = <<>>, !.reported = <<>>,
                                  !.paletteError = FALSE]
  /\ UNCHANGED <<flowVars, shuffledColors, browser, drawLog, blobCard, parseLog,
                 imageData, gallery>>

\* .then((colors) => { setPalette(colors); onPaletteChange(colors) })
ExtractionResolved(e) ==
  /\ e \in uploader.pending
  /\ uploader' = [uploader EXCEPT !.pending = @ \ {e},
                                  !.palette = PaletteOfImage(e.image),
                                  !.reported = PaletteOfImage(e.image)]
  /\ UNCHANGED <<flowVars, shuffledColors, browser, drawLog, blobCard, parseLog,
                 imageData, gallery>>

\* .catch(() => { setPalette([]); onPaletteChange([]); setPaletteError(...) })
ExtractionRejected(e) ==
  /\ e \in uploader.pending
  /\ uploader' = [uploader EXCEPT !.pending = @ \ {e}, !.palette = <<>>,
                                  !.reported = <<>>, !.paletteError = TRUE]
  /\ UNCHANGED <<flowVars, shuffledColors, browser, drawLog, blobCard, parseLog,
                 imageData, gallery>>

UploaderInit ==
  /\ FlowInit
  /\ card = IdleCard
  /\ browser = ModernBrowser
  /\ shuffledColors = <<>>
  /\ drawLog = NoPaint
  /\ blobCard = NoBlobCard
  /\ parseLog = NoParse
  /\ imageData = NoImage
  /\ gallery = NoGallery
  /\ uploader = MountedUploader

UploaderNext ==
  \/ \E img \in UploadImages : SelectImage(img)
  \/ RemoveImage
  \/ \E e \in uploader.pending : ExtractionResolved(e)
  \/ \E e \in uploader.pending : ExtractionRejected(e)

UploaderSpec == UploaderInit /\ [][UploaderNext]_vars

\* C28: once every pending palette extraction has settled, the palette
\* displayed and last reported through onPaletteChange is that of the image
\* selected now (empty when none is selected, or when its extraction failed):
\* a late result or failure for an image selected earlier never overwrites it.
C28_PaletteOfSelectedImage ==
  uploader.pending = {} =>
    /\ uploader.reported = uploader.palette
    /\ IF uploader.selected = 0 THEN uploader.palette = <<>>
       ELSE IF uploader.paletteError THEN uploader.palette = <<>>
       ELSE uploader.palette = PaletteOfImage(uploader.selected)

\* ------------------------------------------- the colors prop of a linear card
\* the colour lists the parent passes, one after the other
PropPalettes ==
  {<<>>, <<BlobTokens[1], BlobTokens[2]>>, <<BlobTokens[3], BlobTokens[4]>>,
   <<BlobTokens[1], BlobTokens[2], BlobTokens[3]>>}

\* the parent renders the card with another colors prop: the card renders with
\* the new processedColors and the shuffledColors state it has, and React
\* schedules the effect on [colors], which runs after the commit
ChangeColors ==
  /\ card.type = "linear" /\ ~card.resetPending
  /\ \E cs \in PropPalettes \ {card.colors} :
       card' = [card EXCEPT !.colors = cs, !.resetPending = TRUE]
  /\ UNCHANGED <<snap, pexp, modal, body, liveUrls, blobJobs, linkTimers,
                 closeTimers, clicks, completes>>
  /\ UNCHANGED cardVars

\* useEffect(() => { setShuffledColors([]); setShuffleKey(0) }, [colors])
ResetEffect ==
  /\ card.resetPending
  /\ card' = [card EXCEPT !.resetPending = FALSE]
  /\ shuffledColors' = <<>>
  /\ UNCHANGED <<snap, pexp, modal, body, liveUrls, blobJobs, linkTimers,
                 closeTimers, clicks, completes>>
  /\ UNCHANGED <<browser, drawLog, blobCard, parseLog, pageVars>>

PropCards ==
  {[type |-> "linear", colors |-> cs, variant |-> v, blobs |-> <<>>,
    width |-> CardWidth, height |-> CardHeight, resetPending |-> FALSE] :
     cs \in PropPalettes, v \in {"default", "smooth"}}

PropInit ==
  /\ FlowInit
  /\ card \in PropCards
  /\ browser = ModernBrowser
  /\ shuffledColors = <<>>
  /\ drawLog = NoPaint
  /\ blobCard = NoBlobCard
  /\ parseLog = NoParse
  /\ PageIdle

PropNext == HandleShuffle \/ ExportPaint \/ ChangeColors \/ ResetEffect

PropSpec == PropInit /\ [][PropNext]_vars

\* C29: the colours a linear card displays and passes to its export modal are
\* always a permutation of its current processed colours (a shuffle click gives
\* a permutation or the original order), and after a change of the colors prop
\* the card never shows colours of the previous list.
C29_DisplayedColorsAreCurrent == CurrentColors \in Shuffles(ProcessedColors)

\* the colours of the stops a paint gave the canvas gradient, in order (none
\* when the paint threw)
IsStopCall(c) == c.op = "addColorStop"
PaintedStops(log) ==
  IF log.threw THEN <<>>
  ELSE LET stops == SelectSeq(log.calls, IsStopCall)
       IN  [k \in 1..Len(stops) |-> stops[k].color]
\* the colours of the stops of the on-screen gradient, in order
PreviewStops == [k \in 1..Len(Stops) |-> Stops[k].color]

\* C30: for a linear card, the colour stops painted by the parametric export
\* are the stops shown in the on-screen preview: the same number of stops (at
\* most 4 for the default variant, the first 3 for the smooth variant) in the
\* same order, for every colour count and both variants.
C30_ExportPaintsPreviewStops ==
  [][ExportPaint => PaintedStops(drawLog') = PreviewStops]_vars

====
